---- MODULE Spec2Model ----
(***************************************************************************)
(* A model of the akaza kana-kanji conversion pipeline: lattice            *)
(* construction (GraphBuilder), node/edge cost lookup (LatticeGraph),      *)
(* the k-best Viterbi resolver (GraphResolver), the re-ranker              *)
(* (ReRankingWeights) and the engine facade (BigramWordViterbiEngine).     *)
(*                                                                         *)
(* Strings are sequences of characters.  A character is a TLA+ string      *)
(* naming one code point: "a","b","c" stand for hiragana, "A","B","C" for  *)
(* the matching katakana, "X","Y","Z","W" for kanji, "1","2" for ASCII     *)
(* digits.  Kana and kanji occupy 3 bytes, ASCII digits 1 byte, as in      *)
(* UTF-8; every position of the lattice is a byte offset.                  *)
(* Costs (f32 in the program) are fixed-point integers in units of 1/16.   *)
(***************************************************************************)
EXTENDS Integers, Sequences, FiniteSets, TLC

VARIABLES
    yomi,                   \* the reading handed to to_lattice / convert
    words_ends_at,          \* SegmentationResult: end byte offset -> list of segments
    system_unigram_lm,      \* [entries: key -> <<id, score>>, total_words, unique_words]
    system_bigram_lm,       \* [entries: <<id1,id2>> -> score, default_edge_cost]
    user_data,              \* [unigram, bigram: user stats, dict: user dictionary]
    lattice,                \* the LatticeGraph of the current query, or NoLattice
    k_best,                 \* outcome of the last resolve_k_best call
    resolved,               \* outcome of the last resolve call
    cost_query,             \* the last get_node_cost / get_edge_cost call and its result
    reranking_weights,      \* ReRankingWeights of the engine
    kbest_paths,            \* the Vec<KBestPath> rerank works on / convert_k_best returns
    kbest_paths_before,     \* the same vector as it was handed to rerank
    converted,              \* outcome of the last convert call
    recorded,               \* the candidates of the last record_entries call
    user_data_lock,         \* the Mutex around the user store: [holder, poisoned]
    dp,                     \* progress of the forward pass of resolve_k_best
    numeric,                \* the last normalizer / numeric parser call and its results
    packed_lm,              \* a packed bigram LM: builder entries, built trie, last lookup
    nan_sort,               \* the last sort of costs that may be NaN
    current_state,          \* CurrentState of the input method front end
    pc                      \* which operation ran last

vars == <<yomi, words_ends_at, system_unigram_lm, system_bigram_lm, user_data,
          lattice, k_best, resolved, cost_query, reranking_weights, kbest_paths,
          kbest_paths_before, converted, recorded, user_data_lock, dp, numeric,
          packed_lm, nan_sort, current_state, pc>>

\* The variables of one conversion query, which the tools around it leave alone
query_vars == <<yomi, words_ends_at, system_unigram_lm, system_bigram_lm, user_data,
                lattice, k_best, resolved, cost_query, reranking_weights, kbest_paths,
                kbest_paths_before, converted, recorded, user_data_lock, dp>>

-----------------------------------------------------------------------------
(* Bounds of the model *)

MaxLen == 2         \* longest reading, in characters
MaxK == 3           \* largest k handed to resolve_k_best
MaxLearn == 2       \* most words the user store learns in one run
MaxPaths == 3       \* most paths handed to rerank
MaxRecord == 4      \* most words the user store records in one run
MaxEntries == 2     \* most keys pushed to the keyset of a packed LM
MaxCosts == 3       \* most costs handed to one sort
MaxClauses == 3     \* most clauses a conversion returns

-----------------------------------------------------------------------------
(* Generic helpers *)

None == <<>>

Range(s) == {s[i] : i \in 1..Len(s)}

Min2(a, b) == IF a <= b THEN a ELSE b

RECURSIVE SumSeq(_)
SumSeq(s) == IF s = <<>> THEN 0 ELSE Head(s) + SumSeq(Tail(s))

RECURSIVE Flatten(_)
Flatten(ss) == IF ss = <<>> THEN <<>> ELSE Head(ss) \o Flatten(Tail(ss))

Reverse(s) == [i \in 1..Len(s) |-> s[Len(s) + 1 - i]]

Take(s, n) == SubSeq(s, 1, Min2(n, Len(s)))

\* Vec::sort_by / Vec::sort: a stable sort on an integer key.
RECURSIVE InsertByCost(_, _)
InsertByCost(sorted, e) ==
    IF sorted = <<>> THEN <<e>>
    ELSE IF e.cost < Head(sorted).cost THEN <<e>> \o sorted
    ELSE <<Head(sorted)>> \o InsertByCost(Tail(sorted), e)

RECURSIVE StableSortByCost(_)
StableSortByCost(s) ==
    IF s = <<>> THEN <<>>
    ELSE InsertByCost(StableSortByCost(SubSeq(s, 1, Len(s) - 1)), s[Len(s)])

-----------------------------------------------------------------------------
(* Characters and strings *)

Hiragana == {"a", "b", "c", "hi", "bi", "ki", "ko", "sa", "n", "ni"}
Digits == {"1", "2"}
FullwidthDigits == {"F1", "F2"}
NUM == "<NUM>"

ByteLen(ch) == IF ch \in Digits THEN 1 ELSE IF ch = NUM THEN 5 ELSE 3

\* str::len(): length in bytes
StrLen(s) == SumSeq([i \in 1..Len(s) |-> ByteLen(s[i])])

KataOf(ch) ==
    CASE ch = "a" -> "A"
      [] ch = "b" -> "B"
      [] ch = "c" -> "C"
      [] ch \in Hiragana -> "K_" \o ch
      [] OTHER -> ch

\* kelp::hira2kata: hiragana become katakana, every other character is kept
hira2kata(s) == [i \in 1..Len(s) |-> KataOf(s[i])]

\* bytes().take_while(is_ascii_digit).count(), in characters (digits are 1 byte)
RECURSIVE DigitEnd(_)
DigitEnd(s) ==
    IF s = <<>> \/ Head(s) \notin Digits THEN 0 ELSE 1 + DigitEnd(Tail(s))

DropChars(s, n) == SubSeq(s, n + 1, Len(s))

-----------------------------------------------------------------------------
(* WordNode *)

BOS_SURFACE == <<"__BOS__">>
EOS_SURFACE == <<"__EOS__">>
NUMBER_KANSUJI == <<"(*(*(NUMBER-KANSUJI">>

WordNode_new(start_pos, surface, yomi_, word_id_and_score, auto_generated) ==
    [start_pos |-> start_pos, surface |-> surface, yomi |-> yomi_, cost |-> 0,
     word_id_and_score |-> word_id_and_score, auto_generated |-> auto_generated]

create_bos ==
    [start_pos |-> 0, surface |-> BOS_SURFACE, yomi |-> BOS_SURFACE, cost |-> 0,
     word_id_and_score |-> None, auto_generated |-> TRUE]

create_eos(start_pos) ==
    [start_pos |-> start_pos, surface |-> EOS_SURFACE, yomi |-> EOS_SURFACE, cost |-> 0,
     word_id_and_score |-> None, auto_generated |-> TRUE]

\* cached_key: "surface/yomi"
key(node) == <<node.surface, node.yomi>>

\* impl PartialEq / Hash for WordNode: start_pos, surface, yomi and cost only
NodeId(node) == <<node.start_pos, node.surface, node.yomi, node.cost>>

NodeEq(n1, n2) == NodeId(n1) = NodeId(n2)

\* The sentinels' yomi is the 7-byte ASCII string "__BOS__" / "__EOS__".
NodeYomiLen(node) ==
    IF node.yomi = BOS_SURFACE \/ node.yomi = EOS_SURFACE THEN 7 ELSE StrLen(node.yomi)

NodeSurfaceLen(node) ==
    IF node.surface = BOS_SURFACE \/ node.surface = EOS_SURFACE THEN 7
    ELSE IF node.surface = NUMBER_KANSUJI THEN 19
    ELSE StrLen(node.surface)

-----------------------------------------------------------------------------
(* Cost formula and the system language models *)

\* round(16 * log2(n)) for n = 1..40
Log2x16 == <<0, 16, 25, 32, 37, 41, 45, 48, 51, 53, 55, 57, 59, 61, 63, 64, 65, 67,
             68, 69, 70, 71, 72, 73, 74, 75, 76, 77, 78, 79, 79, 80, 81, 81, 82, 83,
             83, 84, 85, 85>>

\* calc_cost(count, total, unique) = -log((count + 1) / (total + unique))
calc_cost(count, total_words, unique_words) ==
    Log2x16[total_words + unique_words] - Log2x16[count + 1]

\* MarisaSystemUnigramLM::get_cost
unigram_get_cost(lm, wordcnt) == calc_cost(wordcnt, lm.total_words, lm.unique_words)

\* MarisaSystemUnigramLM::find: Some((id, score)) or None
unigram_find(lm, word) ==
    IF word \in DOMAIN lm.entries THEN lm.entries[word] ELSE None

\* SystemBigramLM::get_edge_cost: Some(score) or None
bigram_get_edge_cost(lm, id1, id2) ==
    IF <<id1, id2>> \in DOMAIN lm.entries THEN <<lm.entries[<<id1, id2>>]>> ELSE None

\* SystemBigramLM::get_default_edge_cost
get_default_edge_cost(lm) == lm.default_edge_cost

-----------------------------------------------------------------------------
(* Numeric and counter normalisation (numeric_counter.rs).  The tables are *)
(* cut down to two counters and two kana numerals of the character set.    *)

COUNTER_DEFS ==
    << [canonical |-> <<"hi", "ki">>,
        aliases |-> << <<"hi", "ki">>, <<"bi", "ki">> >>,
        surfaces |-> << <<"HIKI">> >>],
       [canonical |-> <<"ko">>,
        aliases |-> << <<"ko">> >>,
        surfaces |-> << <<"KO">> >>] >>

KANA_ONES == << <<"sa", "n">>, <<"ni">> >>

KanjiNumeralChars == {"k1", "k2", "k10"}

\* collect_counter_yomi_aliases: all aliases in table order (no alias repeats)
counter_yomi_aliases == Flatten([i \in 1..Len(COUNTER_DEFS) |-> COUNTER_DEFS[i].aliases])

IsPrefixOf(p, s) == Len(p) <= Len(s) /\ SubSeq(s, 1, Len(p)) = p

IsSuffixOf(p, s) == Len(p) <= Len(s) /\ SubSeq(s, Len(s) - Len(p) + 1, Len(s)) = p

RECURSIVE LeadingRun(_, _)
LeadingRun(s, chars) ==
    IF s = <<>> \/ Head(s) \notin chars THEN 0 ELSE 1 + LeadingRun(Tail(s), chars)

\* parse_ascii_or_fullwidth_digits_prefix: number of characters consumed, 0 for None
parse_ascii_or_fullwidth_digits_prefix(s) == LeadingRun(s, Digits \cup FullwidthDigits)

\* parse_kanji_number_prefix: the leading run of kanji numerals (every such run
\* of this character set is a number parse_kanji_number_exact accepts)
parse_kanji_number_prefix(s) == LeadingRun(s, KanjiNumeralChars)

\* parse_numeric_prefix_surface: consumed characters, 0 for None
parse_numeric_prefix_surface(s) ==
    IF parse_ascii_or_fullwidth_digits_prefix(s) > 0
    THEN parse_ascii_or_fullwidth_digits_prefix(s)
    ELSE parse_kanji_number_prefix(s)

\* parse_kana_number_exact, for numbers below ten: exactly one KANA_ONES token
parse_kana_number_exact(s) == \E i \in 1..Len(KANA_ONES) : KANA_ONES[i] = s

\* parse_numeric_exact_reading(s).is_some()
parse_numeric_exact_reading(s) ==
    \/ (parse_ascii_or_fullwidth_digits_prefix(s) > 0
        /\ parse_ascii_or_fullwidth_digits_prefix(s) = Len(s))
    \/ (parse_kanji_number_prefix(s) > 0 /\ parse_kanji_number_prefix(s) = Len(s))
    \/ parse_kana_number_exact(s)

\* normalize_counter_yomi: canonical reading of the first definition listing the alias
normalize_counter_yomi(alias) ==
    LET hits == {i \in 1..Len(COUNTER_DEFS) : alias \in Range(COUNTER_DEFS[i].aliases)}
    IN IF hits = {} THEN None
       ELSE <<COUNTER_DEFS[CHOOSE i \in hits : \A j \in hits : i <= j].canonical>>

\* counter_surfaces_for
counter_surfaces_for(canonical_yomi) ==
    LET hits == {i \in 1..Len(COUNTER_DEFS) : COUNTER_DEFS[i].canonical = canonical_yomi}
    IN IF hits = {} THEN None
       ELSE <<COUNTER_DEFS[CHOOSE i \in hits : \A j \in hits : i <= j].surfaces>>

\* The alias loop of normalize_counter_key_for_lm: the canonical reading of the
\* first alias the reading ends with whose remainder is a number, or None
canonical_counter_yomi(reading) ==
    LET aliases == counter_yomi_aliases
        matching == {i \in 1..Len(aliases) :
                        /\ IsSuffixOf(aliases[i], reading)
                        /\ Len(reading) > Len(aliases[i])
                        /\ parse_numeric_exact_reading(
                               SubSeq(reading, 1, Len(reading) - Len(aliases[i])))
                        /\ normalize_counter_yomi(aliases[i]) # None}
    IN IF matching = {} THEN None
       ELSE normalize_counter_yomi(aliases[CHOOSE i \in matching : \A j \in matching : i <= j])

\* normalize_counter_key_for_lm once the numeric prefix of the surface and the
\* canonical counter reading are known
counter_key(surface, consumed, canonical_yomi) ==
    IF consumed = 0 \/ consumed >= Len(surface) THEN None
    ELSE IF canonical_yomi = None THEN None
    ELSE IF counter_surfaces_for(canonical_yomi[1]) = None THEN None
    ELSE IF DropChars(surface, consumed) \notin Range(counter_surfaces_for(canonical_yomi[1])[1])
    THEN None
    ELSE << << <<NUM>> \o DropChars(surface, consumed), <<NUM>> \o canonical_yomi[1] >> >>

\* normalize_counter_key_for_lm: Some(<<normalized key>>) or None
normalize_counter_key_for_lm(k) ==
    counter_key(k[1], parse_numeric_prefix_surface(k[1]), canonical_counter_yomi(k[2]))

\* normalize_surface_for_lm falling back for bare digits too
normalize_surface_for_lm_BareDigits(k) ==
    IF DigitEnd(k[1]) = 0 THEN None
    ELSE << << <<NUM>> \o DropChars(k[1], DigitEnd(k[1])),
               <<NUM>> \o DropChars(k[2], DigitEnd(k[2])) >> >>

\* normalize_surface_for_lm (graph_builder.rs): Some(<<normalized key>>) or None
normalize_surface_for_lm(k) ==
    LET surface == k[1]
        reading == k[2]
        digit_end == DigitEnd(surface)
        surface_suffix == DropChars(surface, digit_end)
        reading_suffix == DropChars(reading, DigitEnd(reading))
    IN IF digit_end = 0 THEN None
       ELSE IF surface_suffix = <<>> THEN None
       ELSE << << <<NUM>> \o surface_suffix, <<NUM>> \o reading_suffix >> >>

-----------------------------------------------------------------------------
(* User-learning store (unigram_user_stats.rs, bigram_user_stats.rs) *)

EmptyStats == [unique_words |-> 0, total_words |-> 0, word_count |-> <<>>]

\* Option::unwrap_or_else
unwrap_or(opt, default) == IF opt = None THEN default ELSE opt[1]

\* Option::or_else
or_else(opt, other) == IF opt = None THEN other ELSE opt

\* self.word_count.get(key) turned into a cost: Some(cost) or None
CostOfKey(stats, k) ==
    IF k \in DOMAIN stats.word_count
    THEN <<calc_cost(stats.word_count[k], stats.unique_words, stats.total_words)>>
    ELSE None

\* self.word_count.get(&normalized_key?)
CostOfNormalizedKey(stats, normalized_key) ==
    IF normalized_key = None THEN None ELSE CostOfKey(stats, normalized_key[1])

\* UniGramUserStats::get_cost: Some(cost) or None
UniGramUserStats_get_cost(stats, k) ==
    or_else(CostOfKey(stats, k),
            CostOfNormalizedKey(stats, normalize_counter_key_for_lm(k)))

\* BiGramUserStats::get_cost after the raw pair missed
CostOfNormalizedPair(stats, key1, key2, norm1, norm2) ==
    IF norm1 = key1 /\ norm2 = key2 THEN None ELSE CostOfKey(stats, <<norm1, norm2>>)

\* BiGramUserStats::get_cost: Some(cost) or None
BiGramUserStats_get_cost(stats, key1, key2) ==
    or_else(CostOfKey(stats, <<key1, key2>>),
            CostOfNormalizedPair(stats, key1, key2,
                                 unwrap_or(normalize_counter_key_for_lm(key1), key1),
                                 unwrap_or(normalize_counter_key_for_lm(key2), key2)))

\* RecordKey counting every recorded key as a new unique word
RecordKey_AlwaysUnique(stats, k) ==
    [stats EXCEPT !.word_count = (k :> ((IF k \in DOMAIN stats.word_count
                                         THEN stats.word_count[k] ELSE 0) + 1))
                                 @@ stats.word_count,
                  !.unique_words = stats.unique_words + 1,
                  !.total_words = stats.total_words + 1]

\* RecordKey leaving the count of a key the store already has as it is
RecordKey_TotalOnly(stats, k) ==
    IF k \in DOMAIN stats.word_count
    THEN [stats EXCEPT !.total_words = stats.total_words + 1]
    ELSE [stats EXCEPT !.word_count = (k :> 1) @@ stats.word_count,
                       !.unique_words = stats.unique_words + 1,
                       !.total_words = stats.total_words + 1]

\* One step of the record loops: count the key, a new key is a new unique word.
RecordKey(stats, k) ==
    IF k \in DOMAIN stats.word_count
    THEN [stats EXCEPT !.word_count = (k :> (stats.word_count[k] + 1)) @@ stats.word_count,
                       !.total_words = stats.total_words + 1]
    ELSE [stats EXCEPT !.word_count = (k :> 1) @@ stats.word_count,
                       !.unique_words = stats.unique_words + 1,
                       !.total_words = stats.total_words + 1]

\* Candidate::key() of a candidate, counter-normalised for the stores
StoreKey(candidate) ==
    unwrap_or(normalize_counter_key_for_lm(<<candidate.surface, candidate.yomi>>),
              <<candidate.surface, candidate.yomi>>)

\* UniGramUserStats::record_entries
RECURSIVE UniGramUserStats_record_entries(_, _)
UniGramUserStats_record_entries(stats, candidates) ==
    IF candidates = <<>> THEN stats
    ELSE UniGramUserStats_record_entries(RecordKey(stats, StoreKey(Head(candidates))),
                                         Tail(candidates))

\* BiGramUserStats::record_entries: the pairs (candidates[i-1], candidates[i])
RECURSIVE BiGramUserStats_record_from(_, _, _)
BiGramUserStats_record_from(stats, candidates, i) ==
    IF i > Len(candidates) THEN stats
    ELSE BiGramUserStats_record_from(
             RecordKey(stats, <<StoreKey(candidates[i - 1]), StoreKey(candidates[i])>>),
             candidates, i + 1)

BiGramUserStats_record_entries(stats, candidates) ==
    IF Len(candidates) < 2 THEN stats
    ELSE BiGramUserStats_record_from(stats, candidates, 2)

\* SkipBigramUserStats::record_entries: the pairs (candidates[i-2], candidates[i])
RECURSIVE SkipBigramUserStats_record_from(_, _, _)
SkipBigramUserStats_record_from(stats, candidates, i) ==
    IF i > Len(candidates) THEN stats
    ELSE SkipBigramUserStats_record_from(
             RecordKey(stats, <<StoreKey(candidates[i - 2]), StoreKey(candidates[i])>>),
             candidates, i + 1)

\* The skip-bigram store recording adjacent pairs, as the bigram store does
SkipBigramUserStats_record_Adjacent(stats, candidates) ==
    BiGramUserStats_record_entries(stats, candidates)

SkipBigramUserStats_record_entries(stats, candidates) ==
    IF Len(candidates) < 3 THEN stats
    ELSE SkipBigramUserStats_record_from(stats, candidates, 3)

\* UserData::get_unigram_cost / get_bigram_cost: the stores are asked with the
\* nodes' cached keys
get_unigram_cost(ud, node) == UniGramUserStats_get_cost(ud.unigram, key(node))

get_bigram_cost(ud, prev, node) == BiGramUserStats_get_cost(ud.bigram, key(prev), key(node))

\* UserData::record_entries
UserData_record_entries(ud, candidates) ==
    [ud EXCEPT !.unigram = UniGramUserStats_record_entries(ud.unigram, candidates),
               !.bigram = BiGramUserStats_record_entries(ud.bigram, candidates),
               !.skip_bigram = SkipBigramUserStats_record_entries(ud.skip_bigram,
                                                                  candidates)]

-----------------------------------------------------------------------------
(* LatticeGraph: cost of a node and of an edge (lattice_graph.rs) *)

\* get_node_cost asking the system unigram score before the user store
get_node_cost_SystemFirst(ud, ulm, node) ==
    IF node.word_id_and_score # None THEN node.word_id_and_score[2]
    ELSE unwrap_or(get_unigram_cost(ud, node),
                   IF NodeSurfaceLen(node) < NodeYomiLen(node)
                   THEN unigram_get_cost(ulm, 1)
                   ELSE unigram_get_cost(ulm, 0))

\* LatticeGraph::get_node_cost
get_node_cost(ud, ulm, node) ==
    unwrap_or(get_unigram_cost(ud, node),
              IF node.word_id_and_score # None THEN node.word_id_and_score[2]
              ELSE IF NodeSurfaceLen(node) < NodeYomiLen(node)
              THEN unigram_get_cost(ulm, 1)
              ELSE unigram_get_cost(ulm, 0))

\* get_edge_cost asking the user store only when the packed bigram misses
get_edge_cost_SystemFirst(ud, blm, prev, node) ==
    unwrap_or(IF prev.word_id_and_score = None \/ node.word_id_and_score = None THEN None
              ELSE bigram_get_edge_cost(blm, prev.word_id_and_score[1],
                                        node.word_id_and_score[1]),
              unwrap_or(get_bigram_cost(ud, prev, node), get_default_edge_cost(blm)))

\* LatticeGraph::get_edge_cost
get_edge_cost(ud, blm, prev, node) ==
    unwrap_or(get_bigram_cost(ud, prev, node),
              IF prev.word_id_and_score = None THEN get_default_edge_cost(blm)
              ELSE IF node.word_id_and_score = None THEN get_default_edge_cost(blm)
              ELSE unwrap_or(bigram_get_edge_cost(blm, prev.word_id_and_score[1],
                                                  node.word_id_and_score[1]),
                             get_default_edge_cost(blm)))

-----------------------------------------------------------------------------
(* GraphBuilder::construct (graph_builder.rs) *)

\* KanaKanjiDict::get: the surfaces listed for a reading, None when absent
dict_get(dict, reading) == IF reading \in DOMAIN dict THEN <<dict[reading]>> ELSE None

\* kansuji::int2kanji, for the numbers a digit run of at most three digits denotes
KanjiDigit(d) == IF d = "1" THEN <<"k1">> ELSE <<"k2">>

int2kanji(num_str) ==
    IF Len(num_str) = 1 THEN KanjiDigit(num_str[1])
    ELSE IF Len(num_str) = 2
    THEN (IF num_str[1] = "1" THEN <<>> ELSE KanjiDigit(num_str[1]))
         \o <<"k10">> \o KanjiDigit(num_str[2])
    ELSE (IF num_str[1] = "1" THEN <<>> ELSE KanjiDigit(num_str[1])) \o <<"k100">>
         \o (IF num_str[2] = "1" THEN <<>> ELSE KanjiDigit(num_str[2]))
         \o <<"k10">> \o KanjiDigit(num_str[3])

\* The surfaces of a list that pass an "if seen.contains(..) continue" guard
\* when every surface that passes is inserted into seen.
RECURSIVE FilterUnseen(_, _)
FilterUnseen(surfaces, seen) ==
    IF surfaces = <<>> THEN <<>>
    ELSE IF Head(surfaces) \in seen THEN FilterUnseen(Tail(surfaces), seen)
    ELSE <<Head(surfaces)>> \o FilterUnseen(Tail(surfaces), seen \cup {Head(surfaces)})

\* system_unigram_lm.find(key).or_else(|| normalize_surface_for_lm(key).and_then(find))
LmLookup(ulm, k) ==
    LET nk == normalize_surface_for_lm(k)
    IN IF unigram_find(ulm, k) # None THEN unigram_find(ulm, k)
       ELSE IF nk = None THEN None
       ELSE unigram_find(ulm, nk[1])

\* A dictionary node that takes the surface of the LM key it was found under
DictNode_NormalizedSurface(start_pos, surface, segmented_yomi, ulm) ==
    WordNode_new(start_pos,
                 IF unigram_find(ulm, <<surface, segmented_yomi>>) = None
                    /\ normalize_surface_for_lm(<<surface, segmented_yomi>>) # None
                 THEN normalize_surface_for_lm(<<surface, segmented_yomi>>)[1][1]
                 ELSE surface,
                 segmented_yomi, LmLookup(ulm, <<surface, segmented_yomi>>), FALSE)

\* WordNode::new for a dictionary surface: the LM is asked for surface/yomi and
\* then for the normalized key; the node keeps the surface it was given
DictNode(start_pos, surface, segmented_yomi, ulm) ==
    WordNode_new(start_pos, surface, segmented_yomi,
                 LmLookup(ulm, <<surface, segmented_yomi>>), FALSE)

\* The body of the inner loop of construct: the nodes pushed for one segment.
SegmentNodes(yomi_, end_pos, segmented_yomi, system_dict, single_term_dict, ud, ulm) ==
    LET start_pos == end_pos - StrLen(segmented_yomi)
        AutoNode(surface) == WordNode_new(start_pos, surface, segmented_yomi, None, TRUE)
        \* system dictionary
        sys == dict_get(system_dict, segmented_yomi)
        kanjis == IF sys = None THEN <<>> ELSE sys[1]
        seen1 == Range(kanjis)
        \* user dictionary
        usr == dict_get(ud.dict, segmented_yomi)
        user_surfaces == IF usr = None THEN <<>> ELSE FilterUnseen(usr[1], seen1)
        seen2 == seen1 \cup Range(user_surfaces)
        \* hiragana and katakana (not inserted into seen)
        kana == SelectSeq(<<segmented_yomi, hira2kata(segmented_yomi)>>,
                          LAMBDA sf : sf \notin seen2)
        \* number_pattern ^[0-9]+
        number == IF Head(segmented_yomi) \in Digits THEN <<NUMBER_KANSUJI>> ELSE <<>>
        \* digits followed by kana
        digit_end == DigitEnd(segmented_yomi)
        mixed == digit_end > 0 /\ digit_end < Len(segmented_yomi)
        num_str == SubSeq(segmented_yomi, 1, digit_end)
        kana_part == DropChars(segmented_yomi, digit_end)
        tail == dict_get(system_dict, kana_part)
        tail_kanjis == IF tail = None THEN <<>> ELSE tail[1]
        compound == FilterUnseen([i \in 1..Len(tail_kanjis) |-> num_str \o tail_kanjis[i]],
                                 seen2)
        seen3 == seen2 \cup Range(compound)
        kanji_num == int2kanji(num_str)
        kansuji == FilterUnseen([i \in 1..Len(tail_kanjis) |-> kanji_num \o tail_kanjis[i]],
                                seen3)
        seen4 == seen3 \cup Range(kansuji)
        kansuji_kana == FilterUnseen(<<kanji_num \o kana_part>>, seen4)
        \* single term dictionary
        st == IF segmented_yomi = yomi_ THEN dict_get(single_term_dict, yomi_) ELSE None
        single == IF st = None THEN <<>> ELSE st[1]
    IN [i \in 1..Len(kanjis) |-> DictNode(start_pos, kanjis[i], segmented_yomi, ulm)]
       \o [i \in 1..Len(user_surfaces) |-> DictNode(start_pos, user_surfaces[i], segmented_yomi, ulm)]
       \o [i \in 1..Len(kana) |-> AutoNode(kana[i])]
       \o [i \in 1..Len(number) |-> AutoNode(number[i])]
       \o (IF mixed
           THEN [i \in 1..Len(compound) |-> DictNode(start_pos, compound[i], segmented_yomi, ulm)]
                \o [i \in 1..Len(kansuji) |-> DictNode(start_pos, kansuji[i], segmented_yomi, ulm)]
                \o [i \in 1..Len(kansuji_kana) |-> AutoNode(kansuji_kana[i])]
           ELSE <<>>)
       \o [i \in 1..Len(single) |-> DictNode(start_pos, single[i], segmented_yomi, ulm)]

\* A sentinel that takes over the score the LM holds for its reserved key
sentinel_with_id_KeepsScore(node, found) ==
    IF found = None THEN node ELSE [node EXCEPT !.word_id_and_score = found]

\* bos.word_id_and_score = Some((id, 0.0)): the sentinel takes the id the LM
\* holds for its reserved key, with score 0
sentinel_with_id(node, found) ==
    IF found = None THEN node ELSE [node EXCEPT !.word_id_and_score = <<found[1], 0>>]

\* GraphBuilder::construct: the LatticeGraph for a reading and its segmentation
construct(yomi_, segmentation, system_dict, single_term_dict, ud, ulm) ==
    LET len == StrLen(yomi_)
        bos_find == unigram_find(ulm, <<BOS_SURFACE, BOS_SURFACE>>)
        eos_find == unigram_find(ulm, <<EOS_SURFACE, EOS_SURFACE>>)
        bos == sentinel_with_id(create_bos, bos_find)
        eos == sentinel_with_id(create_eos(len), eos_find)
        Pushed(p) ==
            IF p \in DOMAIN segmentation
            THEN Flatten([i \in 1..Len(segmentation[p]) |->
                            SegmentNodes(yomi_, p, segmentation[p][i], system_dict,
                                         single_term_dict, ud, ulm)])
            ELSE <<>>
    IN [yomi |-> yomi_,
        graph |-> [p \in {0, len + 1} \cup DOMAIN segmentation |->
                      (IF p = len + 1 THEN <<eos>> ELSE IF p = 0 THEN <<bos>> ELSE <<>>)
                      \o Pushed(p)]]

\* LatticeGraph::node_list / get: None when the position has no list
node_list(lat, end_pos) ==
    IF end_pos \in DOMAIN lat.graph THEN <<lat.graph[end_pos]>> ELSE None

\* LatticeGraph::get_prev_nodes: the list keyed by the node's start position
get_prev_nodes(lat, node) == node_list(lat, node.start_pos)

-----------------------------------------------------------------------------
(* GraphResolver (graph_resolver.rs) *)

F32_MAX == 1000000
BreakdownDepth == 4
BreakdownFanout == 3
BreakdownThreshold == 5

\* Candidate; Vec<Candidate>::sort orders candidates by cost ascending
Candidate(surface, yomi_, cost, compound_word) ==
    [surface |-> surface, yomi |-> yomi_, cost |-> cost, compound_word |-> compound_word]

\* costmap.get(f), f32::MAX when the node has no cost
CostOf(costmap, node) ==
    IF NodeId(node) \in DOMAIN costmap THEN costmap[NodeId(node)] ELSE F32_MAX

\* The order in which a BinaryHeap collected from at most three elements sorted
\* ascending is iterated: the vector after the heap is rebuilt.
HeapOrder(s) ==
    IF Len(s) = 2 THEN (IF s[1].cost < s[2].cost THEN <<s[2], s[1]>> ELSE s)
    ELSE IF Len(s) = 3 THEN (IF s[1].cost >= s[3].cost THEN s ELSE <<s[3], s[2], s[1]>>)
    ELSE s

\* GraphResolver::collect_breakdown_results: the compound candidates pushed
RECURSIVE collect_breakdown_results(_, _, _, _, _, _, _, _, _, _, _, _, _, _)
collect_breakdown_results(node_yomi, required_len, min_start_pos, cur_surface, cur_yomi, lat, end_pos, depth, cost_map, tail_cost, next_node, ud, ulm, blm) ==
    LET list == node_list(lat, end_pos)
        filtered == SelectSeq(list[1], LAMBDA cur :
                        min_start_pos <= cur.start_pos /\ cur.yomi # node_yomi)
        \* BreakDown: ordered by head_cost + tail_cost
        breakdowns == [i \in 1..Len(filtered) |->
            LET f == filtered[i]
                head_cost == CostOf(cost_map, f)
                tail == tail_cost + get_node_cost(ud, ulm, f)
                        + (IF next_node = None THEN get_default_edge_cost(blm)
                           ELSE get_edge_cost(ud, blm, f, next_node[1]))
            IN [node |-> f, head_cost |-> head_cost, tail_cost |-> tail,
                cost |-> head_cost + tail]]
        targets == HeapOrder(Take(StableSortByCost(breakdowns), BreakdownFanout))
        Visit(target) ==
            IF target.node.yomi = BOS_SURFACE \/ target.node.yomi = EOS_SURFACE THEN <<>>
            ELSE IF required_len < StrLen(target.node.yomi) THEN <<>>
            ELSE collect_breakdown_results(
                     node_yomi, required_len - StrLen(target.node.yomi), min_start_pos,
                     target.node.surface \o cur_surface, target.node.yomi \o cur_yomi,
                     lat, end_pos - StrLen(target.node.yomi), depth + 1, cost_map,
                     tail_cost + target.tail_cost, <<target.node>>, ud, ulm, blm)
    IN IF depth > BreakdownDepth THEN <<>>
       ELSE IF StrLen(cur_yomi) = StrLen(node_yomi)
       THEN <<Candidate(cur_surface, cur_yomi, tail_cost, TRUE)>>
       ELSE IF list = None THEN <<>>
       ELSE Flatten([i \in 1..Len(targets) |-> Visit(targets[i])])

\* GraphResolver::get_candidates: the candidate list of one clause
get_candidates(node, lat, costmap, end_pos, ud, ulm, blm) ==
    LET list == node_list(lat, end_pos)
        alts == SelectSeq(list[1], LAMBDA alt :
                    alt.start_pos = node.start_pos
                    /\ NodeYomiLen(alt) = NodeYomiLen(node))
        strict_results == StableSortByCost(
            [i \in 1..Len(alts) |->
                Candidate(alts[i].surface, alts[i].yomi, CostOf(costmap, alts[i]), FALSE)])
        candidates == StableSortByCost(
            collect_breakdown_results(node.yomi, StrLen(node.yomi), node.start_pos,
                                      <<>>, <<>>, lat, end_pos, 0, costmap, 0, None,
                                      ud, ulm, blm))
    IN IF list = None THEN <<>>
       ELSE IF Len(strict_results) < BreakdownThreshold THEN strict_results \o candidates
       ELSE strict_results

\* KBestEntry
KBestEntry(cost, prev_node, prev_rank) ==
    [cost |-> cost, prev_node |-> prev_node, prev_rank |-> prev_rank]

\* The entries one previous node contributes: one per entry of its k-best list,
\* or a single entry when it has none (BOS)
EntriesFrom(kbest_map, prev, step_cost) ==
    IF NodeId(prev) \in DOMAIN kbest_map
    THEN [r \in 1..Len(kbest_map[NodeId(prev)]) |->
             KBestEntry(kbest_map[NodeId(prev)][r].cost + step_cost, prev, r - 1)]
    ELSE <<KBestEntry(step_cost, prev, 0)>>

\* NodeEntries truncating to k + 1 entries
NodeEntries_OffByOne(lat, k, node, kbest_map, ud, ulm, blm) ==
    LET prev_nodes == get_prev_nodes(lat, node)[1]
    IN Take(StableSortByCost(Flatten(
                [i \in 1..Len(prev_nodes) |->
                    EntriesFrom(kbest_map, prev_nodes[i],
                                get_edge_cost(ud, blm, prev_nodes[i], node)
                                + get_node_cost(ud, ulm, node))])),
            k + 1)

\* The entries generated for one node from its predecessors' k-best lists,
\* sorted by cost ascending and truncated to k.
NodeEntries(lat, k, node, kbest_map, ud, ulm, blm) ==
    LET prev_nodes == get_prev_nodes(lat, node)[1]
    IN Take(StableSortByCost(Flatten(
                [i \in 1..Len(prev_nodes) |->
                    EntriesFrom(kbest_map, prev_nodes[i],
                                get_edge_cost(ud, blm, prev_nodes[i], node)
                                + get_node_cost(ud, ulm, node))])),
            k)

\* kbest_map.insert(node, entries), or the bail! on an empty list
InsertEntries(st, node, entries) ==
    IF entries = <<>> THEN [st EXCEPT !.err = "No valid previous node found"]
    ELSE [st EXCEPT !.map = (NodeId(node) :> entries) @@ st.map]

\* The forward pass over the nodes of one position, from the j-th on.
\* The state is [err, map]: err is set by the two failure exits of the loop.
RECURSIVE ForwardNodes(_, _, _, _, _, _, _, _)
ForwardNodes(lat, k, nodes, j, st, ud, ulm, blm) ==
    IF st.err # "" \/ j > Len(nodes) THEN st
    ELSE IF get_prev_nodes(lat, nodes[j]) = None
    THEN [st EXCEPT !.err = "Cannot get prev nodes"]
    ELSE ForwardNodes(lat, k, nodes, j + 1,
                      InsertEntries(st, nodes[j],
                                    NodeEntries(lat, k, nodes[j], st.map, ud, ulm, blm)),
                      ud, ulm, blm)

\* for i in 1..yomi.len() + 2
RECURSIVE ForwardPass(_, _, _, _, _, _, _)
ForwardPass(lat, k, i, st, ud, ulm, blm) ==
    IF st.err # "" \/ i > StrLen(lat.yomi) + 1 THEN st
    ELSE IF node_list(lat, i) = None THEN ForwardPass(lat, k, i + 1, st, ud, ulm, blm)
    ELSE ForwardPass(lat, k, i + 1,
                     ForwardNodes(lat, k, node_list(lat, i)[1], 1, st, ud, ulm, blm),
                     ud, ulm, blm)

\* The backward walk from one EOS entry: the nodes visited, last clause first.
RECURSIVE BacktrackNodes(_, _, _, _)
BacktrackNodes(kbest_map, bos, cur_node, cur_rank) ==
    IF NodeEq(cur_node, bos) THEN <<>>
    ELSE IF NodeId(cur_node) \notin DOMAIN kbest_map THEN <<cur_node>>
    ELSE LET entries == kbest_map[NodeId(cur_node)]
             entry == IF cur_rank + 1 <= Len(entries) THEN entries[cur_rank + 1]
                      ELSE entries[1]
         IN <<cur_node>> \o BacktrackNodes(kbest_map, bos, entry.prev_node, entry.prev_rank)

\* PathNodes without path.reverse()
PathNodes_NoReverse(kbest_map, bos, eos_entry) ==
    SelectSeq(BacktrackNodes(kbest_map, bos, eos_entry.prev_node, eos_entry.prev_rank),
              LAMBDA n : n.surface # EOS_SURFACE)

\* The nodes of the path of one EOS entry, first clause first (__EOS__ is skipped).
PathNodes(kbest_map, bos, eos_entry) ==
    Reverse(SelectSeq(BacktrackNodes(kbest_map, bos, eos_entry.prev_node,
                                     eos_entry.prev_rank),
                      LAMBDA n : n.surface # EOS_SURFACE))

\* pattern: the yomi length of the first candidate of every non-empty clause
Pattern(path) ==
    LET nonempty == SelectSeq(path, LAMBDA clause : clause # <<>>)
    IN [i \in 1..Len(nonempty) |-> <<0, StrLen(nonempty[i][1].yomi)>>]

\* DedupPaths without the seen_patterns check
DedupPaths_KeepAll(paths, nodes, i, acc) ==
    [seen_patterns |-> {}, all_paths |-> paths, all_nodes |-> nodes]

\* The loop over the EOS entries: a path is kept unless its pattern was seen.
RECURSIVE DedupPaths(_, _, _, _)
DedupPaths(paths, nodes, i, acc) ==
    IF i > Len(paths) THEN acc
    ELSE IF Pattern(paths[i]) \in acc.seen_patterns
    THEN DedupPaths(paths, nodes, i + 1, acc)
    ELSE DedupPaths(paths, nodes, i + 1,
                    [seen_patterns |-> acc.seen_patterns \cup {Pattern(paths[i])},
                     all_paths |-> Append(acc.all_paths, paths[i]),
                     all_nodes |-> Append(acc.all_nodes, nodes[i])])

\* costmap: the cost of the best entry of every node
Costmap(kbest_map) == [id \in DOMAIN kbest_map |-> kbest_map[id][1].cost]

\* The candidate lists of one backtracked path, clause by clause
PathCandidates(lat, costmap, path_nodes, ud, ulm, blm) ==
    [j \in 1..Len(path_nodes) |->
        get_candidates(path_nodes[j], lat, costmap,
                       path_nodes[j].start_pos + NodeYomiLen(path_nodes[j]),
                       ud, ulm, blm)]

\* all_paths after the loop, with the fallback of one empty path
ReturnPaths(kept) ==
    IF kept.all_paths = <<>>
    THEN [err |-> "", paths |-> << <<>> >>, nodes |-> << <<>> >>]
    ELSE [err |-> "", paths |-> kept.all_paths, nodes |-> kept.all_nodes]

\* The loop over the EOS entries, given the nodes each entry backtracks through
ExtractPaths(lat, costmap, nodes, ud, ulm, blm) ==
    ReturnPaths(DedupPaths([i \in 1..Len(nodes) |->
                               PathCandidates(lat, costmap, nodes[i], ud, ulm, blm)],
                           nodes, 1,
                           [seen_patterns |-> {}, all_paths |-> <<>>, all_nodes |-> <<>>]))

\* resolve_k_best after the forward pass
Backward(lat, st, ud, ulm, blm) ==
    LET eos_list == node_list(lat, StrLen(lat.yomi) + 1)
        bos_list == node_list(lat, 0)
        Fail(msg) == [err |-> msg, paths |-> <<>>, nodes |-> <<>>]
    IN IF st.err # "" THEN Fail(st.err)
       ELSE IF eos_list = None \/ eos_list[1] = <<>> THEN Fail("EOS node not found")
       ELSE IF bos_list = None \/ bos_list[1] = <<>> THEN Fail("BOS node not found")
       ELSE IF NodeId(eos_list[1][1]) \notin DOMAIN st.map
       THEN Fail("k-best entries not found for EOS")
       ELSE ExtractPaths(lat, Costmap(st.map),
                         [i \in 1..Len(st.map[NodeId(eos_list[1][1])]) |->
                             PathNodes(st.map, bos_list[1][1],
                                       st.map[NodeId(eos_list[1][1])][i])],
                         ud, ulm, blm)

\* GraphResolver::resolve_k_best.  The result is [err, paths, nodes]: paths is the
\* returned value, nodes the lattice nodes each returned path was read from.
resolve_k_best(lat, k, ud, ulm, blm) ==
    Backward(lat, ForwardPass(lat, k, 1, [err |-> "", map |-> <<>>], ud, ulm, blm),
             ud, ulm, blm)

\* paths.into_iter().next().unwrap_or_default(), as [err, path, nodes]
FirstPath(r) ==
    IF r.err # "" THEN [err |-> r.err, path |-> <<>>, nodes |-> <<>>]
    ELSE IF r.paths = <<>> THEN [err |-> "", path |-> <<>>, nodes |-> <<>>]
    ELSE [err |-> "", path |-> r.paths[1], nodes |-> r.nodes[1]]

\* resolve taking the last of the two best paths
resolve_SecondBest(lat, ud, ulm, blm) ==
    LET r == resolve_k_best(lat, 2, ud, ulm, blm)
    IN IF r.err # "" THEN [err |-> r.err, path |-> <<>>, nodes |-> <<>>]
       ELSE IF r.paths = <<>> THEN [err |-> "", path |-> <<>>, nodes |-> <<>>]
       ELSE [err |-> "", path |-> r.paths[Len(r.paths)], nodes |-> r.nodes[Len(r.nodes)]]

\* GraphResolver::resolve: the first path of resolve_k_best(lattice, 1)
resolve(lat, ud, ulm, blm) == FirstPath(resolve_k_best(lat, 1, ud, ulm, blm))

-----------------------------------------------------------------------------
(* ReRankingWeights (reranking.rs).  Weights are whole numbers; a token     *)
(* count enters a cost as CostUnit per token.                              *)

\* 1.0 in the fixed-point unit of the costs
CostUnit == 16

\* impl Default for ReRankingWeights
ReRankingWeights_default ==
    [bigram_weight |-> 1, length_weight |-> 2, unknown_bigram_weight |-> 1,
     skip_bigram_weight |-> 0]

\* The right-hand side of the assignment to path.rerank_cost
RerankCost(weights, path) ==
    path.unigram_cost
    + weights.bigram_weight * path.bigram_cost
    + weights.unknown_bigram_weight * path.unknown_bigram_cost
    + weights.length_weight * (path.token_count * CostUnit)
    + weights.skip_bigram_weight * path.skip_bigram_cost

\* paths.sort_by(|a, b| a.rerank_cost.partial_cmp(&b.rerank_cost)): stable
RECURSIVE InsertByRerankCost(_, _)
InsertByRerankCost(sorted, e) ==
    IF sorted = <<>> THEN <<e>>
    ELSE IF e.rerank_cost < Head(sorted).rerank_cost THEN <<e>> \o sorted
    ELSE <<Head(sorted)>> \o InsertByRerankCost(Tail(sorted), e)

RECURSIVE SortByRerankCost(_)
SortByRerankCost(s) ==
    IF s = <<>> THEN <<>>
    ELSE InsertByRerankCost(SortByRerankCost(SubSeq(s, 1, Len(s) - 1)), s[Len(s)])

\* rerank without the final sort
rerank_NoSort(weights, ps) ==
    [i \in 1..Len(ps) |-> [ps[i] EXCEPT !.rerank_cost = RerankCost(weights, ps[i])]]

\* ReRankingWeights::rerank: the vector after the call
rerank(weights, ps) ==
    SortByRerankCost(
        [i \in 1..Len(ps) |-> [ps[i] EXCEPT !.rerank_cost = RerankCost(weights, ps[i])]])

-----------------------------------------------------------------------------
(* BigramWordViterbiEngine: convert and convert_k_best                     *)
(* (bigram_word_viterbi_engine.rs)                                         *)

\* k of the convert_k_best call inside convert
ConvertK == 10

\* Whether the cost of the edge came from the user store or the packed bigram
\* rather than from the default edge cost
EdgeKnown(ud, blm, prev, node) ==
    \/ get_bigram_cost(ud, prev, node) # None
    \/ /\ prev.word_id_and_score # None
       /\ node.word_id_and_score # None
       /\ bigram_get_edge_cost(blm, prev.word_id_and_score[1],
                               node.word_id_and_score[1]) # None

\* A KBestPath from its cost components: rerank_cost starts as the Viterbi cost
KBestPath_new(segments, unigram_cost, bigram_cost, unknown_bigram_cost, unknown_bigram_count, token_count) ==
    [segments |-> segments,
     cost |-> unigram_cost + bigram_cost + unknown_bigram_cost,
     viterbi_cost |-> unigram_cost + bigram_cost + unknown_bigram_cost,
     unigram_cost |-> unigram_cost, bigram_cost |-> bigram_cost,
     unknown_bigram_cost |-> unknown_bigram_cost,
     unknown_bigram_count |-> unknown_bigram_count, token_count |-> token_count,
     rerank_cost |-> unigram_cost + bigram_cost + unknown_bigram_cost,
     word_ids |-> <<>>, skip_bigram_cost |-> 0]

\* The KBestPath of the node sequence full = BOS, clause nodes, EOS
KBestPathOfNodes(segments, full, token_count, ud, ulm, blm) ==
    KBestPath_new(
        segments,
        SumSeq([i \in 1..Len(full) - 1 |-> get_node_cost(ud, ulm, full[i + 1])]),
        SumSeq([i \in 1..Len(full) - 1 |->
                   IF EdgeKnown(ud, blm, full[i], full[i + 1])
                   THEN get_edge_cost(ud, blm, full[i], full[i + 1]) ELSE 0]),
        SumSeq([i \in 1..Len(full) - 1 |->
                   IF EdgeKnown(ud, blm, full[i], full[i + 1])
                   THEN 0 ELSE get_edge_cost(ud, blm, full[i], full[i + 1])]),
        SumSeq([i \in 1..Len(full) - 1 |->
                   IF EdgeKnown(ud, blm, full[i], full[i + 1]) THEN 0 ELSE 1]),
        token_count)

\* The Vec<KBestPath> resolve_k_best hands to the engine
KBestPaths(lat, r, ud, ulm, blm) ==
    [i \in 1..Len(r.paths) |->
        KBestPathOfNodes(r.paths[i],
                         <<lat.graph[0][1]>> \o r.nodes[i]
                             \o <<lat.graph[StrLen(lat.yomi) + 1][1]>>,
                         Len(r.nodes[i]), ud, ulm, blm)]

\* convert_k_best after resolve_k_best returned r; `raw` keeps r
RerankedPaths(lat, r, weights, ud, ulm, blm) ==
    IF r.err # "" THEN [err |-> r.err, paths |-> <<>>, raw |-> r]
    ELSE [err |-> "", paths |-> rerank(weights, KBestPaths(lat, r, ud, ulm, blm)),
          raw |-> r]

\* convert_k_best on the lattice to_lattice built
ConvertKBestOn(lat, k, weights, ud, ulm, blm) ==
    RerankedPaths(lat, resolve_k_best(lat, k, ud, ulm, blm), weights, ud, ulm, blm)

\* BigramWordViterbiEngine::convert_k_best: [err, paths, raw]
convert_k_best(yomi_, segmentation, k, system_dict, single_term_dict, weights, ud, ulm, blm) ==
    ConvertKBestOn(construct(yomi_, segmentation, system_dict, single_term_dict, ud, ulm),
                   k, weights, ud, ulm, blm)

\* paths.first() of convert: [err, segments]
BestSegments(r) ==
    IF r.err # "" THEN [err |-> r.err, segments |-> <<>>]
    ELSE IF r.paths = <<>> THEN [err |-> "", segments |-> <<>>]
    ELSE [err |-> "", segments |-> r.paths[1].segments]

\* convert returning the Viterbi-best path of resolve, without re-ranking
convert_ViterbiOnly(yomi_, segmentation, system_dict, single_term_dict, weights, ud, ulm, blm) ==
    BestSegments(
        [err |-> resolve(construct(yomi_, segmentation, system_dict, single_term_dict,
                                   ud, ulm), ud, ulm, blm).err,
         paths |-> <<[segments |->
                        resolve(construct(yomi_, segmentation, system_dict,
                                          single_term_dict, ud, ulm), ud, ulm, blm).path]>>])

\* BigramWordViterbiEngine::convert: [err, segments]
convert(yomi_, segmentation, system_dict, single_term_dict, weights, ud, ulm, blm) ==
    BestSegments(convert_k_best(yomi_, segmentation, ConvertK, system_dict,
                                single_term_dict, weights, ud, ulm, blm))

-----------------------------------------------------------------------------
(* The engine's fixed parts: dictionaries and the language models it may   *)
(* have been built with.                                                   *)

\* system_kana_kanji_dict: reading -> surfaces
SystemKanaKanjiDict ==
    (<<"a">> :> << <<"X">>, <<"Y">> >>)
    @@ (<<"b">> :> << <<"Z">> >>)
    @@ (<<"a", "b">> :> << <<"W">> >>)

\* system_single_term_dict
SystemSingleTermDict == (<<"b">> :> << <<"S">> >>)

\* Unigram entries key -> <<word id, score>> an LM of the model may hold
UnigramVocabulary ==
    (<< <<"X">>, <<"a">> >> :> <<1, 16>>)
    @@ (<< <<"Y">>, <<"a">> >> :> <<2, 32>>)
    @@ (<< <<"Z">>, <<"b">> >> :> <<3, 16>>)
    @@ (<< <<"W">>, <<"a", "b">> >> :> <<4, 80>>)

Restrict(f, S) == [x \in S |-> f[x]]

UnigramLMs ==
    {[entries |-> Restrict(UnigramVocabulary, S), total_words |-> 4, unique_words |-> 3] :
        S \in {{},
               {<< <<"X">>, <<"a">> >>, << <<"Y">>, <<"a">> >>, << <<"Z">>, <<"b">> >>},
               DOMAIN UnigramVocabulary}}

\* Bigram entries <<id1, id2>> -> score
BigramVocabulary == (<<2, 3>> :> 8) @@ (<<1, 3>> :> 24)

BigramLMs ==
    {[entries |-> Restrict(BigramVocabulary, S), default_edge_cost |-> 64] :
        S \in {{}, {<<2, 3>>}, DOMAIN BigramVocabulary}}

\* Candidate lists the user may have accepted before the query
LearnedBefore ==
    {<<>>,
     <<Candidate(<<"Y">>, <<"a">>, 0, FALSE), Candidate(<<"Z">>, <<"b">>, 0, FALSE)>>}

EmptyUserData ==
    [unigram |-> EmptyStats, bigram |-> EmptyStats, skip_bigram |-> EmptyStats,
     dict |-> <<>>]

-----------------------------------------------------------------------------
(* Readings and segmentations *)

ReadingChars == {"a", "b"}

RECURSIVE SeqsOfLen(_, _)
SeqsOfLen(S, n) ==
    IF n = 0 THEN {<<>>}
    ELSE {<<x>> \o t : x \in S, t \in SeqsOfLen(S, n - 1)}

Readings == UNION {SeqsOfLen(ReadingChars, n) : n \in 0..MaxLen}

\* The elements of a set of integers in ascending order
RECURSIVE SortedSeq(_)
SortedSeq(S) ==
    IF S = {} THEN <<>>
    ELSE LET m == CHOOSE x \in S : \A y \in S : x <= y
         IN <<m>> \o SortedSeq(S \ {m})

\* Spans <<s, e>> in characters, 0 <= s < e <= Len(reading)
Spans(reading) == {<<s, e>> : s \in 0..Len(reading) - 1, e \in 1..Len(reading)}
                      \cap {sp \in (0..MaxLen + 1) \X (0..MaxLen + 1) : sp[1] < sp[2]}

\* The SegmentationResult listing the given spans of the reading: every list is
\* keyed by the end byte offset and ordered by ascending start.
SegmentationOf(reading, spans) ==
    LET EndByte(e) == StrLen(SubSeq(reading, 1, e))
        ends == {sp[2] : sp \in spans}
        StartsAt(e) == SortedSeq({sp[1] : sp \in {x \in spans : x[2] = e}})
    IN [p \in {EndByte(e) : e \in ends} |->
          LET e == CHOOSE x \in ends : EndByte(x) = p
          IN [i \in 1..Len(StartsAt(e)) |-> SubSeq(reading, StartsAt(e)[i] + 1, e)]]

-----------------------------------------------------------------------------
(* The resolver's operations on one query *)

NoLattice == [yomi |-> <<>>, graph |-> <<>>]
NoKBest == [k |-> -1, err |-> "not run", paths |-> <<>>, nodes |-> <<>>]
NoResolved == [err |-> "not run", path |-> <<>>, nodes |-> <<>>]
NoConverted == [err |-> "not run", segments |-> <<>>]
NoQuery == [kind |-> "none", prev |-> create_bos, node |-> create_bos, cost |-> 0]

\* Mutex::new(user_data): nobody holds the guard, no holder has panicked
Mutex_new == [holder |-> "none", poisoned |-> FALSE]

NoNumeric == [op |-> "none"]
NoPackedLM == [op |-> "none"]
NoSort == [op |-> "none"]
NoCurrentState == [op |-> "none"]

\* No forward pass is under way
NoDP == [active |-> FALSE, k |-> 0, i |-> 0, st |-> [err |-> "", map |-> <<>>],
         stores |-> {}]

InitResolver ==
    /\ yomi \in Readings
    /\ \E spans \in SUBSET Spans(yomi) : words_ends_at = SegmentationOf(yomi, spans)
    /\ system_unigram_lm \in UnigramLMs
    /\ system_bigram_lm \in BigramLMs
    /\ \E learned \in LearnedBefore :
          user_data = UserData_record_entries(EmptyUserData, learned)
    /\ lattice = NoLattice
    /\ k_best = NoKBest
    /\ resolved = NoResolved
    /\ cost_query = NoQuery
    /\ reranking_weights = ReRankingWeights_default
    /\ kbest_paths = <<>>
    /\ kbest_paths_before = <<>>
    /\ converted = NoConverted
    /\ numeric = NoNumeric
    /\ packed_lm = NoPackedLM
    /\ nan_sort = NoSort
    /\ current_state = NoCurrentState
    /\ recorded = <<>>
    /\ user_data_lock = Mutex_new
    /\ dp = NoDP
    /\ pc = "init"

\* BigramWordViterbiEngine::to_lattice, given the segmenter's result
ToLattice ==
    /\ pc = "init"
    /\ lattice' = construct(yomi, words_ends_at, SystemKanaKanjiDict,
                            SystemSingleTermDict, user_data, system_unigram_lm)
    /\ pc' = "to_lattice"
    /\ UNCHANGED <<numeric, packed_lm, nan_sort, current_state, recorded, user_data_lock, dp, yomi, words_ends_at, system_unigram_lm, system_bigram_lm, user_data,
                   k_best, resolved, cost_query,
                   reranking_weights, kbest_paths, kbest_paths_before, converted>>

\* GraphResolver::resolve_k_best(&lattice, k)
ResolveKBest(k) ==
    /\ pc \in {"to_lattice", "resolve"}
    /\ k_best = NoKBest
    /\ k_best' = [k |-> k] @@ resolve_k_best(lattice, k, user_data, system_unigram_lm,
                                             system_bigram_lm)
    /\ pc' = "resolve_k_best"
    /\ UNCHANGED <<numeric, packed_lm, nan_sort, current_state, recorded, user_data_lock, dp, yomi, words_ends_at, system_unigram_lm, system_bigram_lm, user_data,
                   lattice, resolved, cost_query,
                   reranking_weights, kbest_paths, kbest_paths_before, converted>>

\* GraphResolver::resolve(&lattice)
Resolve ==
    /\ pc \in {"to_lattice", "resolve_k_best"}
    /\ resolved = NoResolved
    /\ resolved' = resolve(lattice, user_data, system_unigram_lm, system_bigram_lm)
    /\ pc' = "resolve"
    /\ UNCHANGED <<numeric, packed_lm, nan_sort, current_state, recorded, user_data_lock, dp, yomi, words_ends_at, system_unigram_lm, system_bigram_lm, user_data,
                   lattice, k_best, cost_query,
                   reranking_weights, kbest_paths, kbest_paths_before, converted>>

NextResolver ==
    \/ ToLattice
    \/ \E k \in 0..MaxK : ResolveKBest(k)
    \/ Resolve

SpecResolver == InitResolver /\ [][NextResolver]_vars

-----------------------------------------------------------------------------
(* Properties of the resolver *)

\* The segmentation signature of a returned path: the yomi byte length of
\* every clause, read from the clause's first candidate.
Signature(path) == [i \in 1..Len(path) |-> StrLen(path[i][1].yomi)]

\* The segmentation patterns of the lattice: the clause-length lists of the
\* node sequences that lead from BOS (offset 0) to the given byte offset.
RECURSIVE PatternsTo(_, _)
PatternsTo(lat, pos) ==
    IF pos = 0 THEN {<<>>}
    ELSE IF pos \notin DOMAIN lat.graph THEN {}
    ELSE UNION {{Append(pt, pos - n.start_pos) : pt \in PatternsTo(lat, n.start_pos)} :
                   n \in {m \in Range(lat.graph[pos]) : m.start_pos < pos}}

LatticePatterns(lat) == PatternsTo(lat, StrLen(lat.yomi))

\* The cost of the cheapest node sequence from BOS up to and including the node.
RECURSIVE BestCostTo(_, _, _, _, _)
BestCostTo(lat, node, ud, ulm, blm) ==
    LET prevs == Range(lat.graph[node.start_pos])
        Via(pv) == (IF pv.surface = BOS_SURFACE THEN 0
                    ELSE BestCostTo(lat, pv, ud, ulm, blm))
                   + get_edge_cost(ud, blm, pv, node) + get_node_cost(ud, ulm, node)
        costs == {Via(pv) : pv \in prevs}
    IN CHOOSE c \in costs : \A d \in costs : c <= d

\* The total cost of the node sequence BOS, ns[1], .., ns[Len(ns)], EOS.
SequenceCost(lat, ns, ud, ulm, blm) ==
    LET eos == lat.graph[StrLen(lat.yomi) + 1][1]
        full == <<lat.graph[0][1]>> \o ns \o <<eos>>
    IN SumSeq([i \in 1..Len(full) - 1 |->
                  get_edge_cost(ud, blm, full[i], full[i + 1])
                  + get_node_cost(ud, ulm, full[i + 1])])

\* The lattice node a candidate of the clause read from node cn was made of.
NodeOfCandidate(lat, cn, cand) ==
    LET list == lat.graph[cn.start_pos + NodeYomiLen(cn)]
        hits == {i \in 1..Len(list) : /\ list[i].start_pos = cn.start_pos
                                      /\ list[i].surface = cand.surface
                                      /\ list[i].yomi = cand.yomi}
    IN list[CHOOSE i \in hits : \A j \in hits : i <= j]

\* The node sequence named by the first candidate of every clause.
FirstCandidateNodes(lat, path, ns) ==
    [i \in 1..Len(path) |-> NodeOfCandidate(lat, ns[i], path[i][1])]

BothRan == k_best.k = 1 /\ resolved.err # "not run"

\* C1: resolve_k_best(lattice, 1) returns exactly one path, and that path is
\* the clause sequence resolve(lattice) returns (both fail together).
ThmC1_KBestOneEqualsResolve ==
    BothRan =>
        /\ (k_best.err = "") = (resolved.err = "")
        /\ k_best.err = "" =>
              /\ Len(k_best.paths) = 1
              /\ resolved.path = k_best.paths[1]
              /\ \A i \in 1..Len(resolved.path) :
                    resolved.path[i][1] = k_best.paths[1][i][1]

WitC1_BothResolvedTwoClauses ==
    BothRan /\ k_best.err = "" /\ Len(resolved.path) >= 2
    /\ Cardinality(LatticePatterns(lattice)) >= 2

\* C2: a successful resolve_k_best(lattice, k) with k >= 1 returns at least one
\* and at most k paths.
ThmC2_BetweenOneAndKPaths ==
    (k_best.k >= 1 /\ k_best.err = "") =>
        (Len(k_best.paths) >= 1 /\ Len(k_best.paths) <= k_best.k)

WitC2_FewerThanKPaths ==
    k_best.k = 3 /\ k_best.err = "" /\ Len(k_best.paths) = 2

\* C3: two distinct paths of one resolve_k_best result have different
\* segmentation signatures.
ThmC3_DistinctSignatures ==
    (k_best.k >= 1 /\ k_best.err = "") =>
        \A i, j \in 1..Len(k_best.paths) :
            i # j => Signature(k_best.paths[i]) # Signature(k_best.paths[j])

\* a call that returned two paths after dropping an entry with a repeated pattern
WitC3_TwoPathsAfterDedup ==
    /\ k_best.k = 3 /\ k_best.err = "" /\ Len(k_best.paths) = 2
    /\ Cardinality(LatticePatterns(lattice)) = 2

\* C4: resolve_k_best returns fewer than k paths only when the lattice holds
\* fewer than k distinct segmentation patterns.
ClaimC4_KPathsWhenKPatterns ==
    (k_best.k >= 1 /\ k_best.err = "") =>
        (Len(k_best.paths) < k_best.k
            => Cardinality(LatticePatterns(lattice)) < k_best.k)

\* C5: in every returned path the clauses tile the reading: the first starts
\* at byte 0, each starts where the previous one ends, the last ends at
\* len(R), and the clause yomi concatenate to R.
ThmC5_ClausesTileReading ==
    (k_best.k >= 1 /\ k_best.err = "") =>
        \A p \in 1..Len(k_best.paths) :
            LET path == k_best.paths[p]
                ns == k_best.nodes[p]
                End(i) == ns[i].start_pos + StrLen(ns[i].yomi)
            IN /\ Len(ns) = Len(path)
               /\ Len(ns) >= 1 => (ns[1].start_pos = 0 /\ End(Len(ns)) = StrLen(yomi))
               /\ Len(ns) = 0 => yomi = <<>>
               /\ \A i \in 2..Len(ns) : ns[i].start_pos = End(i - 1)
               /\ \A i \in 1..Len(ns) : \A c \in 1..Len(path[i]) :
                     path[i][c].yomi = ns[i].yomi
               /\ Flatten([i \in 1..Len(path) |-> path[i][1].yomi]) = yomi

WitC5_TwoClausePath ==
    /\ k_best.k >= 2 /\ k_best.err = "" /\ Len(k_best.paths) >= 2
    /\ \E p \in 1..Len(k_best.paths) : Len(k_best.paths[p]) >= 2

\* C6: the first candidates of the clauses of resolve's result form a
\* minimum-total-cost path from BOS to EOS.
ClaimC6_FirstCandidatesAreCheapest ==
    (resolved.err = "") =>
        SequenceCost(lattice, FirstCandidateNodes(lattice, resolved.path, resolved.nodes),
                     user_data, system_unigram_lm, system_bigram_lm)
        = BestCostTo(lattice, lattice.graph[StrLen(lattice.yomi) + 1][1],
                     user_data, system_unigram_lm, system_bigram_lm)

-----------------------------------------------------------------------------
(* Cost lookups against a user store that learns *)

\* "surface/yomi" keys of the words that are learned and asked about
CostKeys ==
    { << <<"X">>, <<"a">> >>, << <<"Y">>, <<"a">> >>, << <<"Z">>, <<"b">> >>,
      << <<"1", "HIKI">>, <<"1", "bi", "ki">> >> }

\* The system unigram LM of the cost lookups: the vocabulary and the <NUM> key
\* of the counter
CostUnigramLM ==
    [entries |-> UnigramVocabulary
                 @@ (<< <<NUM, "HIKI">>, <<NUM, "bi", "ki">> >> :> <<5, 48>>),
     total_words |-> 4, unique_words |-> 3]

\* The nodes a lattice can hold for the keys: word_id_and_score as construct
\* attaches it, or None for an auto-generated node
CostNodes(ulm) ==
    {WordNode_new(0, ky[1], ky[2], LmLookup(ulm, ky), FALSE) : ky \in CostKeys}
    \cup {WordNode_new(0, ky[1], ky[2], None, TRUE) : ky \in CostKeys}

LearnLists ==
    {<<Candidate(ky[1], ky[2], 0, FALSE)>> : ky \in CostKeys}
    \cup {<<Candidate(k1[1], k1[2], 0, FALSE), Candidate(k2[1], k2[2], 0, FALSE)>> :
             k1 \in CostKeys, k2 \in CostKeys}

InitCost ==
    /\ yomi = <<>>
    /\ words_ends_at = <<>>
    /\ system_unigram_lm = CostUnigramLM
    /\ system_bigram_lm \in BigramLMs
    /\ user_data = EmptyUserData
    /\ lattice = NoLattice
    /\ k_best = NoKBest
    /\ resolved = NoResolved
    /\ cost_query = NoQuery
    /\ reranking_weights = ReRankingWeights_default
    /\ kbest_paths = <<>>
    /\ kbest_paths_before = <<>>
    /\ converted = NoConverted
    /\ numeric = NoNumeric
    /\ packed_lm = NoPackedLM
    /\ nan_sort = NoSort
    /\ current_state = NoCurrentState
    /\ recorded = <<>>
    /\ user_data_lock = Mutex_new
    /\ dp = NoDP
    /\ pc = "init"

\* BigramWordViterbiEngine::learn
Learn(candidates) ==
    /\ user_data.unigram.total_words + Len(candidates) <= MaxLearn
    /\ user_data' = UserData_record_entries(user_data, candidates)
    /\ cost_query' = NoQuery
    /\ pc' = "learn"
    /\ UNCHANGED <<numeric, packed_lm, nan_sort, current_state, recorded, user_data_lock, dp, yomi, words_ends_at, system_unigram_lm, system_bigram_lm, lattice,
                   k_best, resolved,
                   reranking_weights, kbest_paths, kbest_paths_before, converted>>

\* LatticeGraph::get_node_cost(node)
GetNodeCost(node) ==
    /\ cost_query' = [kind |-> "node", prev |-> create_bos, node |-> node,
                      cost |-> get_node_cost(user_data, system_unigram_lm, node)]
    /\ pc' = "get_node_cost"
    /\ UNCHANGED <<numeric, packed_lm, nan_sort, current_state, recorded, user_data_lock, dp, yomi, words_ends_at, system_unigram_lm, system_bigram_lm, user_data,
                   lattice, k_best, resolved,
                   reranking_weights, kbest_paths, kbest_paths_before, converted>>

\* LatticeGraph::get_edge_cost(prev, node)
GetEdgeCost(prev, node) ==
    /\ cost_query' = [kind |-> "edge", prev |-> prev, node |-> node,
                      cost |-> get_edge_cost(user_data, system_bigram_lm, prev, node)]
    /\ pc' = "get_edge_cost"
    /\ UNCHANGED <<numeric, packed_lm, nan_sort, current_state, recorded, user_data_lock, dp, yomi, words_ends_at, system_unigram_lm, system_bigram_lm, user_data,
                   lattice, k_best, resolved,
                   reranking_weights, kbest_paths, kbest_paths_before, converted>>

NextCost ==
    \/ \E candidates \in LearnLists : Learn(candidates)
    \/ \E node \in CostNodes(system_unigram_lm) : GetNodeCost(node)
    \/ \E prev \in CostNodes(system_unigram_lm) \cup {create_bos},
          node \in CostNodes(system_unigram_lm) \cup {create_eos(0)} :
          GetEdgeCost(prev, node)

SpecCost == InitCost /\ [][NextCost]_vars

\* The cost of the backoff steps 2-4 of get_node_cost
SystemNodeCost(node) ==
    IF node.word_id_and_score # None THEN node.word_id_and_score[2]
    ELSE IF NodeSurfaceLen(node) < NodeYomiLen(node)
    THEN unigram_get_cost(system_unigram_lm, 1)
    ELSE unigram_get_cost(system_unigram_lm, 0)

UserCostOfCount(stats, count) == calc_cost(count, stats.unique_words, stats.total_words)

\* C7 as stated: the user cost is returned exactly when the user store has a
\* count for the node key itself; otherwise the system score, get_cost(1) or
\* get_cost(0) in that order.
ClaimC7_NodeCostPriority ==
    cost_query.kind = "node" =>
        LET wc == user_data.unigram.word_count
            ky == key(cost_query.node)
        IN cost_query.cost =
              IF ky \in DOMAIN wc THEN UserCostOfCount(user_data.unigram, wc[ky])
              ELSE SystemNodeCost(cost_query.node)

\* The count the user unigram store answers a key with: the key's own count
\* or, failing that, the count of its counter-normalized key.
UserUnigramCount(ky) ==
    LET wc == user_data.unigram.word_count
        nk == normalize_counter_key_for_lm(ky)
    IN IF ky \in DOMAIN wc THEN <<wc[ky]>>
       ELSE IF nk # None /\ nk[1] \in DOMAIN wc THEN <<wc[nk[1]]>>
       ELSE None

\* C7 (amended): get_node_cost returns the user-store unigram cost if the user
\* store has a count for the node key or, failing that, for its
\* counter-normalized key; otherwise the stored system unigram score if
\* word_id_and_score is set; otherwise get_cost(1) if the surface is shorter in
\* bytes than the yomi; otherwise get_cost(0).
ThmC7_NodeCostPriorityNormalized ==
    cost_query.kind = "node" =>
        LET hit == UserUnigramCount(key(cost_query.node))
        IN cost_query.cost =
              IF hit # None THEN UserCostOfCount(user_data.unigram, hit[1])
              ELSE SystemNodeCost(cost_query.node)

\* the user cost wins over a stored system score that differs from it
WitC7_UserCostOverSystemScore ==
    /\ cost_query.kind = "node"
    /\ UserUnigramCount(key(cost_query.node)) # None
    /\ cost_query.node.word_id_and_score # None
    /\ cost_query.cost # cost_query.node.word_id_and_score[2]

\* The count the user bigram store answers a pair of keys with: the pair's own
\* count or, when a key has a counter-normalized form, the count of the
\* normalized pair.
UserBigramCount(k1, k2) ==
    LET wc == user_data.bigram.word_count
        n1 == normalize_counter_key_for_lm(k1)
        n2 == normalize_counter_key_for_lm(k2)
        norm == <<IF n1 = None THEN k1 ELSE n1[1], IF n2 = None THEN k2 ELSE n2[1]>>
    IN IF <<k1, k2>> \in DOMAIN wc THEN <<wc[<<k1, k2>>]>>
       ELSE IF norm \in DOMAIN wc THEN <<wc[norm]>>
       ELSE None

\* C8: get_edge_cost returns the user-store bigram cost if the user store has
\* the pair (looked up with counter normalization); otherwise the packed bigram
\* score if both nodes carry word IDs and the bigram LM contains the pair;
\* otherwise the default edge cost, also whenever either node has no word ID.
ThmC8_EdgeCostPriority ==
    cost_query.kind = "edge" =>
        LET pv == cost_query.prev
            nd == cost_query.node
            hit == UserBigramCount(key(pv), key(nd))
            entries == system_bigram_lm.entries
        IN cost_query.cost =
              IF hit # None THEN UserCostOfCount(user_data.bigram, hit[1])
              ELSE IF /\ pv.word_id_and_score # None
                      /\ nd.word_id_and_score # None
                      /\ <<pv.word_id_and_score[1], nd.word_id_and_score[1]>>
                            \in DOMAIN entries
              THEN entries[<<pv.word_id_and_score[1], nd.word_id_and_score[1]>>]
              ELSE system_bigram_lm.default_edge_cost

\* the user pair wins over a packed bigram score that differs from it
WitC8_UserPairOverPackedScore ==
    /\ cost_query.kind = "edge"
    /\ UserBigramCount(key(cost_query.prev), key(cost_query.node)) # None
    /\ cost_query.prev.word_id_and_score # None
    /\ cost_query.node.word_id_and_score # None
    /\ <<cost_query.prev.word_id_and_score[1], cost_query.node.word_id_and_score[1]>>
          \in DOMAIN system_bigram_lm.entries
    /\ cost_query.cost # system_bigram_lm.entries[
          <<cost_query.prev.word_id_and_score[1], cost_query.node.word_id_and_score[1]>>]

-----------------------------------------------------------------------------
(* The re-ranker on its own, on paths built as its tests build them *)

\* make_path of the reranking tests
make_path(viterbi_cost, unigram_cost, bigram_cost, unknown_bigram_cost, unknown_bigram_count, token_count) ==
    [segments |-> <<>>, cost |-> viterbi_cost, viterbi_cost |-> viterbi_cost,
     unigram_cost |-> unigram_cost, bigram_cost |-> bigram_cost,
     unknown_bigram_cost |-> unknown_bigram_cost,
     unknown_bigram_count |-> unknown_bigram_count, token_count |-> token_count,
     rerank_cost |-> viterbi_cost, word_ids |-> <<>>, skip_bigram_cost |-> 0]

\* The paths of the three tests, in cost units, and one with a skip-bigram cost
TestPaths ==
    {make_path(160, 48, 32, 80, 1, 3), make_path(128, 64, 16, 48, 1, 2),
     make_path(240, 48, 32, 160, 2, 3), make_path(96, 80, 16, 0, 0, 2),
     make_path(96, 48, 32, 16, 1, 5),
     [make_path(96, 48, 32, 16, 1, 2) EXCEPT !.skip_bigram_cost = 24]}

\* The weights of the tests that are whole numbers, and weights that enable
\* the skip-bigram term or drop the bigram term
TestWeights ==
    {ReRankingWeights_default,
     [bigram_weight |-> 1, length_weight |-> 0, unknown_bigram_weight |-> 0,
      skip_bigram_weight |-> 0],
     [bigram_weight |-> 0, length_weight |-> 1, unknown_bigram_weight |-> 2,
      skip_bigram_weight |-> 1]}

InitRerank ==
    /\ yomi = <<>>
    /\ words_ends_at = <<>>
    /\ system_unigram_lm = CostUnigramLM
    /\ system_bigram_lm \in {lm \in BigramLMs : lm.entries = <<>>}
    /\ user_data = EmptyUserData
    /\ lattice = NoLattice
    /\ k_best = NoKBest
    /\ resolved = NoResolved
    /\ cost_query = NoQuery
    /\ reranking_weights \in TestWeights
    /\ kbest_paths \in UNION {SeqsOfLen(TestPaths, n) : n \in 0..MaxPaths}
    /\ kbest_paths_before = <<>>
    /\ converted = NoConverted
    /\ numeric = NoNumeric
    /\ packed_lm = NoPackedLM
    /\ nan_sort = NoSort
    /\ current_state = NoCurrentState
    /\ recorded = <<>>
    /\ user_data_lock = Mutex_new
    /\ dp = NoDP
    /\ pc = "init"

\* ReRankingWeights::rerank(&mut paths)
Rerank ==
    /\ kbest_paths_before' = kbest_paths
    /\ kbest_paths' = rerank(reranking_weights, kbest_paths)
    /\ pc' = "rerank"
    /\ UNCHANGED <<numeric, packed_lm, nan_sort, current_state, recorded, user_data_lock, dp, yomi, words_ends_at, system_unigram_lm, system_bigram_lm, user_data,
                   lattice, k_best, resolved, cost_query, reranking_weights, converted>>

\* The engine is rebuilt with other weights
SetWeights(weights) ==
    /\ weights # reranking_weights
    /\ reranking_weights' = weights
    /\ pc' = "set_weights"
    /\ UNCHANGED <<numeric, packed_lm, nan_sort, current_state, recorded, user_data_lock, dp, yomi, words_ends_at, system_unigram_lm, system_bigram_lm, user_data,
                   lattice, k_best, resolved, cost_query, kbest_paths, kbest_paths_before, converted>>

NextRerank ==
    \/ Rerank
    \/ \E weights \in TestWeights : SetWeights(weights)

SpecRerank == InitRerank /\ [][NextRerank]_vars

\* A path with its rerank_cost blanked: what rerank leaves of a path
WithoutRerankCost(path) == [path EXCEPT !.rerank_cost = 0]

\* Number of positions of ps holding the path p, rerank_cost aside
Occurrences(ps, p) ==
    Cardinality({i \in 1..Len(ps) : WithoutRerankCost(ps[i]) = WithoutRerankCost(p)})

\* C9: after rerank every path has rerank_cost = unigram_cost
\* + bigram_weight * bigram_cost + unknown_bigram_weight * unknown_bigram_cost
\* + length_weight * token_count + skip_bigram_weight * skip_bigram_cost, the
\* paths are in ascending rerank_cost order, and they are the paths handed in:
\* none added, none removed.
ThmC9_RerankCostAndOrder ==
    pc = "rerank" =>
        /\ \A i \in 1..Len(kbest_paths) :
              kbest_paths[i].rerank_cost =
                  kbest_paths[i].unigram_cost
                  + reranking_weights.bigram_weight * kbest_paths[i].bigram_cost
                  + reranking_weights.unknown_bigram_weight * kbest_paths[i].unknown_bigram_cost
                  + reranking_weights.length_weight * kbest_paths[i].token_count * CostUnit
                  + reranking_weights.skip_bigram_weight * kbest_paths[i].skip_bigram_cost
        /\ \A i \in 1..Len(kbest_paths) - 1 : kbest_paths[i].rerank_cost <= kbest_paths[i + 1].rerank_cost
        /\ Len(kbest_paths) = Len(kbest_paths_before)
        /\ \A i \in 1..Len(kbest_paths_before) :
              Occurrences(kbest_paths, kbest_paths_before[i]) = Occurrences(kbest_paths_before, kbest_paths_before[i])

\* rerank moved a path: the vector was not in ascending order of the new costs
WitC9_RerankReorders ==
    /\ pc = "rerank"
    /\ Len(kbest_paths) = MaxPaths
    /\ \E i \in 1..Len(kbest_paths) :
          WithoutRerankCost(kbest_paths[i]) # WithoutRerankCost(kbest_paths_before[i])
    /\ \E i \in 1..Len(kbest_paths) : kbest_paths[i].rerank_cost # kbest_paths[i].viterbi_cost

-----------------------------------------------------------------------------
(* The engine on one reading: convert, convert_k_best, resolve and learn *)

\* The spans the segmenter finds: those whose reading the kana trie, built
\* from the system dictionary, holds
KanaTrieSpans(reading) ==
    {sp \in Spans(reading) : SubSeq(reading, sp[1] + 1, sp[2]) \in DOMAIN SystemKanaKanjiDict}

\* Weights the engine may be configured with
EngineWeights ==
    {ReRankingWeights_default,
     [bigram_weight |-> 1, length_weight |-> 0, unknown_bigram_weight |-> 1,
      skip_bigram_weight |-> 0]}

InitEngine ==
    /\ yomi \in Readings
    /\ words_ends_at = SegmentationOf(yomi, KanaTrieSpans(yomi))
    /\ system_unigram_lm \in UnigramLMs
    /\ system_bigram_lm \in BigramLMs
    /\ \E learned \in LearnedBefore :
          user_data = UserData_record_entries(EmptyUserData, learned)
    /\ lattice = NoLattice
    /\ k_best = NoKBest
    /\ resolved = NoResolved
    /\ cost_query = NoQuery
    /\ reranking_weights \in EngineWeights
    /\ kbest_paths = <<>>
    /\ kbest_paths_before = <<>>
    /\ converted = NoConverted
    /\ numeric = NoNumeric
    /\ packed_lm = NoPackedLM
    /\ nan_sort = NoSort
    /\ current_state = NoCurrentState
    /\ recorded = <<>>
    /\ user_data_lock = Mutex_new
    /\ dp = NoDP
    /\ pc = "init"

\* What convert_k_best leaves: its paths, and the resolver's output they were
\* made from
ConvertKBestReturns(k, r) ==
    /\ kbest_paths' = r.paths
    /\ k_best' = [k |-> k, err |-> r.err, paths |-> r.raw.paths, nodes |-> r.raw.nodes]

\* engine.convert_k_best(yomi, None, k)
EngineConvertKBest(k) ==
    /\ k_best = NoKBest
    /\ ConvertKBestReturns(k, convert_k_best(yomi, words_ends_at, k, SystemKanaKanjiDict,
                                             SystemSingleTermDict, reranking_weights,
                                             user_data, system_unigram_lm,
                                             system_bigram_lm))
    /\ pc' = "convert_k_best"
    /\ UNCHANGED <<numeric, packed_lm, nan_sort, current_state, recorded, user_data_lock, dp, yomi, words_ends_at, system_unigram_lm, system_bigram_lm, user_data,
                   lattice, resolved, cost_query, reranking_weights, kbest_paths_before,
                   converted>>

\* convert recording the first candidates of its result in the user store
EngineConvert_Learns ==
    /\ converted = NoConverted
    /\ converted' = convert(yomi, words_ends_at, SystemKanaKanjiDict, SystemSingleTermDict,
                            reranking_weights, user_data, system_unigram_lm,
                            system_bigram_lm)
    /\ user_data' = UserData_record_entries(
                        user_data,
                        [i \in 1..Len(converted'.segments) |-> converted'.segments[i][1]])
    /\ pc' = "convert"
    /\ UNCHANGED <<numeric, packed_lm, nan_sort, current_state, recorded, user_data_lock, dp, yomi, words_ends_at, system_unigram_lm,
                   system_bigram_lm, lattice, k_best, resolved, cost_query,
                   reranking_weights, kbest_paths, kbest_paths_before>>

\* engine.convert(yomi, None)
EngineConvert ==
    /\ converted = NoConverted
    /\ converted' = convert(yomi, words_ends_at, SystemKanaKanjiDict, SystemSingleTermDict,
                            reranking_weights, user_data, system_unigram_lm,
                            system_bigram_lm)
    /\ pc' = "convert"
    /\ UNCHANGED <<numeric, packed_lm, nan_sort, current_state, recorded, user_data_lock, dp, yomi, words_ends_at, system_unigram_lm, system_bigram_lm, user_data,
                   lattice, k_best, resolved, cost_query, reranking_weights, kbest_paths,
                   kbest_paths_before>>

\* engine.resolve(&engine.to_lattice(yomi, None))
EngineResolve ==
    /\ resolved = NoResolved
    /\ resolved' = resolve(construct(yomi, words_ends_at, SystemKanaKanjiDict,
                                     SystemSingleTermDict, user_data, system_unigram_lm),
                           user_data, system_unigram_lm, system_bigram_lm)
    /\ pc' = "resolve"
    /\ UNCHANGED <<numeric, packed_lm, nan_sort, current_state, recorded, user_data_lock, dp, yomi, words_ends_at, system_unigram_lm, system_bigram_lm, user_data,
                   lattice, k_best, cost_query, reranking_weights, kbest_paths,
                   kbest_paths_before, converted>>

\* engine.learn(candidates) with the first candidate of every clause of the
\* converted result; the outcomes of the calls made before are dropped
EngineLearn ==
    /\ converted.err = ""
    /\ converted.segments # <<>>
    /\ \A i \in 1..Len(converted.segments) : converted.segments[i] # <<>>
    /\ user_data.unigram.total_words + Len(converted.segments) <= MaxLearn
    /\ user_data' = UserData_record_entries(
                        user_data,
                        [i \in 1..Len(converted.segments) |-> converted.segments[i][1]])
    /\ k_best' = NoKBest
    /\ kbest_paths' = <<>>
    /\ resolved' = NoResolved
    /\ converted' = NoConverted
    /\ pc' = "learn"
    /\ UNCHANGED <<numeric, packed_lm, nan_sort, current_state, recorded, user_data_lock, dp, yomi, words_ends_at, system_unigram_lm, system_bigram_lm, lattice,
                   cost_query, reranking_weights, kbest_paths_before>>

NextEngine ==
    \/ \E k \in {MaxK, ConvertK} : EngineConvertKBest(k)
    \/ EngineConvert
    \/ EngineResolve
    \/ EngineLearn

SpecEngine == InitEngine /\ [][NextEngine]_vars

\* C10: convert(reading, force_ranges) returns exactly the segments of the
\* first path of convert_k_best(reading, force_ranges, 10) after re-ranking,
\* an empty list when that call yields no path, and fails when it fails.
ThmC10_ConvertIsTopOfTenBest ==
    (converted.err # "not run" /\ k_best.k = ConvertK) =>
        /\ converted.err = k_best.err
        /\ converted.segments =
              IF kbest_paths = <<>> THEN <<>> ELSE kbest_paths[1].segments

\* the length penalty reordered the paths: convert returns a path other than
\* resolve's Viterbi-best one
WitC10_ConvertDiffersFromResolve ==
    /\ converted.err = ""
    /\ k_best.k = ConvertK
    /\ k_best.err = ""
    /\ resolved.err = ""
    /\ Len(kbest_paths) >= 2
    /\ converted.segments = kbest_paths[1].segments
    /\ converted.segments # resolved.path
    /\ kbest_paths[1].viterbi_cost > kbest_paths[2].viterbi_cost

-----------------------------------------------------------------------------
(* The user store on its own: learn calls on a store that starts empty *)

\* Words the user accepts: a plain word and two counter words whose keys
\* share one counter-normalized key
RecordKeys ==
    { << <<"X">>, <<"a">> >>,
      << <<"1", "HIKI">>, <<"1", "bi", "ki">> >>,
      << <<"2", "HIKI">>, <<"2", "hi", "ki">> >> }

\* The candidate lists learn is called with: up to three accepted clauses
RecordLists ==
    UNION {SeqsOfLen({Candidate(ky[1], ky[2], 0, FALSE) : ky \in RecordKeys}, n) :
              n \in 0..3}

\* BigramWordViterbiEngine::learn, the lock granted: UserData::record_entries
RecordEntries(candidates) ==
    /\ user_data.unigram.total_words + Len(candidates) <= MaxRecord
    /\ user_data' = UserData_record_entries(user_data, candidates)
    /\ recorded' = candidates
    /\ pc' = "record_entries"
    /\ UNCHANGED <<numeric, packed_lm, nan_sort, current_state, user_data_lock, dp, yomi, words_ends_at, system_unigram_lm,
                   system_bigram_lm, lattice, k_best, resolved, cost_query,
                   reranking_weights, kbest_paths, kbest_paths_before, converted>>

NextLearn == \E candidates \in RecordLists : RecordEntries(candidates)

SpecLearn == InitCost /\ [][NextLearn]_vars

\* The sum of all counts of a count map
RECURSIVE SumCounts(_)
SumCounts(word_count) ==
    IF DOMAIN word_count = {} THEN 0
    ELSE LET k == CHOOSE x \in DOMAIN word_count : TRUE
         IN word_count[k] + SumCounts([x \in DOMAIN word_count \ {k} |-> word_count[x]])

\* The counter-normalized keys of a candidate list, and of its pairs `gap` apart
UnigramKeys(candidates) == [i \in 1..Len(candidates) |-> StoreKey(candidates[i])]

PairKeys(candidates, gap) ==
    [i \in 1..(IF Len(candidates) > gap THEN Len(candidates) - gap ELSE 0) |->
        <<StoreKey(candidates[i]), StoreKey(candidates[i + gap])>>]

\* stats_after is stats with every key of the list counted once per occurrence
CountedOnce(stats, stats_after, keys) ==
    /\ DOMAIN stats_after.word_count = DOMAIN stats.word_count \cup Range(keys)
    /\ \A k \in DOMAIN stats_after.word_count :
          stats_after.word_count[k] =
              (IF k \in DOMAIN stats.word_count THEN stats.word_count[k] ELSE 0)
              + Cardinality({i \in 1..Len(keys) : keys[i] = k})

\* The scalars moved as the claim says: one total word per recorded key, one
\* unique word per key that was not in the map
ScalarsMoved(stats, stats_after, keys) ==
    /\ stats_after.total_words = stats.total_words + Len(keys)
    /\ stats_after.unique_words =
          stats.unique_words + Cardinality(Range(keys) \ DOMAIN stats.word_count)

ScalarsMatchMap(stats) ==
    /\ stats.unique_words = Cardinality(DOMAIN stats.word_count)
    /\ stats.total_words = SumCounts(stats.word_count)

\* C11: starting from an empty user store, after any sequence of
\* record_entries calls unique_words is the number of distinct keys of
\* word_count and total_words the sum of all counts; every recorded n-gram
\* adds one to total_words, and one to unique_words exactly when its
\* counter-normalized key was not yet in the map.
ThmC11_ScalarsMatchCounts ==
    /\ [](ScalarsMatchMap(user_data.unigram) /\ ScalarsMatchMap(user_data.bigram))
    /\ [][pc' = "record_entries" =>
            /\ ScalarsMoved(user_data.unigram, user_data.unigram', UnigramKeys(recorded'))
            /\ ScalarsMoved(user_data.bigram, user_data.bigram', PairKeys(recorded', 1))]_vars

\* a word was recorded again under a raw key that differs from the first one:
\* two total words, one unique word
WitC11_RepeatedNormalizedKey ==
    /\ pc = "record_entries"
    /\ Len(recorded) >= 2
    /\ recorded[1] # recorded[2]
    /\ StoreKey(recorded[1]) = StoreKey(recorded[2])
    /\ user_data.unigram.unique_words < user_data.unigram.total_words
    /\ user_data.bigram.unique_words < user_data.bigram.total_words

\* C12: for a candidate list of length n the bigram store records exactly the
\* n-1 adjacent pairs (candidates[i-1], candidates[i]) and the skip-bigram
\* store exactly the n-2 pairs (candidates[i-2], candidates[i]); with fewer
\* than 2 (respectively 3) candidates the store's map and both scalars are
\* left unchanged.
ThmC12_PairsRecorded ==
    [][pc' = "record_entries" =>
          /\ CountedOnce(user_data.bigram, user_data.bigram', PairKeys(recorded', 1))
          /\ CountedOnce(user_data.skip_bigram, user_data.skip_bigram',
                         PairKeys(recorded', 2))
          /\ user_data.bigram'.total_words - user_data.bigram.total_words
                = (IF Len(recorded') >= 2 THEN Len(recorded') - 1 ELSE 0)
          /\ user_data.skip_bigram'.total_words - user_data.skip_bigram.total_words
                = (IF Len(recorded') >= 3 THEN Len(recorded') - 2 ELSE 0)
          /\ Len(recorded') < 2 => user_data.bigram' = user_data.bigram
          /\ Len(recorded') < 3 => user_data.skip_bigram' = user_data.skip_bigram]_vars

\* three candidates were recorded: two adjacent pairs, one skip pair that is
\* not one of them
WitC12_ThreeCandidates ==
    /\ pc = "record_entries"
    /\ Len(recorded) = 3
    /\ user_data.bigram.total_words = 2
    /\ user_data.skip_bigram.total_words = 1
    /\ DOMAIN user_data.skip_bigram.word_count \cap DOMAIN user_data.bigram.word_count = {}

\* The nodes construct can make for a learned candidate's key: auto-generated,
\* or carrying a word id with one of a range of system unigram scores
LearnedNodes(candidate) ==
    {WordNode_new(0, candidate.surface, candidate.yomi, w, FALSE) :
        w \in {None} \cup {<<1, score>> : score \in {0, 16, 48, 80}}}

-----------------------------------------------------------------------------
(* What the engine's operations leave alone *)

\* C14: to_lattice, resolve, convert and convert_k_best never modify the
\* user-learning store (count maps, unique_words, total_words) or the
\* language models; learn is the only engine operation after which the user
\* store differs.
ThmC14_OnlyLearnWrites ==
    [][/\ system_unigram_lm' = system_unigram_lm
       /\ system_bigram_lm' = system_bigram_lm
       /\ pc' \in {"convert", "convert_k_best", "resolve", "to_lattice"}
             => user_data' = user_data
       /\ user_data' # user_data => pc' = "learn"]_vars

\* the three conversions ran against a store that learn had written to
WitC14_ConvertedAfterLearn ==
    /\ converted.err = "" /\ converted.segments # <<>>
    /\ k_best.err = ""
    /\ resolved.err = ""
    /\ user_data.unigram.total_words = 1

-----------------------------------------------------------------------------
(* The user store behind its Mutex: one query and a learner that share it  *)

\* lattice.lock_user_data(): the resolver takes the guard
lock_user_data(mutex) == [mutex EXCEPT !.holder = "resolver"]

\* drop(user_data): the guard is given back
drop_user_data(mutex) == [mutex EXCEPT !.holder = "none"]

\* What the learner is handed while a query runs
LearnerLists ==
    {<<Candidate(<<"Y">>, <<"a">>, 0, FALSE)>>,
     <<Candidate(<<"Y">>, <<"a">>, 0, FALSE), Candidate(<<"Z">>, <<"b">>, 0, FALSE)>>}

InitLock ==
    /\ yomi \in Readings
    /\ words_ends_at = SegmentationOf(yomi, KanaTrieSpans(yomi))
    /\ system_unigram_lm \in {lm \in UnigramLMs : lm.entries = UnigramVocabulary}
    /\ system_bigram_lm \in {lm \in BigramLMs : lm.entries = BigramVocabulary}
    /\ user_data = EmptyUserData
    /\ lattice = NoLattice
    /\ k_best = NoKBest
    /\ resolved = NoResolved
    /\ cost_query = NoQuery
    /\ reranking_weights = ReRankingWeights_default
    /\ kbest_paths = <<>>
    /\ kbest_paths_before = <<>>
    /\ converted = NoConverted
    /\ numeric = NoNumeric
    /\ packed_lm = NoPackedLM
    /\ nan_sort = NoSort
    /\ current_state = NoCurrentState
    /\ recorded = <<>>
    /\ user_data_lock = Mutex_new
    /\ dp = NoDP
    /\ pc = "init"

\* A thread that held the guard panicked before the query: the Mutex is
\* poisoned from then on
Poison ==
    /\ pc = "init"
    /\ user_data_lock = Mutex_new
    /\ user_data_lock' = [user_data_lock EXCEPT !.poisoned = TRUE]
    /\ UNCHANGED <<numeric, packed_lm, nan_sort, current_state, recorded, dp, yomi, words_ends_at, system_unigram_lm,
                   system_bigram_lm, user_data, lattice, k_best, resolved, cost_query,
                   reranking_weights, kbest_paths, kbest_paths_before, converted, pc>>

\* learn recording without asking for the lock
LockedLearn_NoLock(candidates) ==
    /\ user_data.unigram.total_words + Len(candidates) <= MaxLearn
    /\ recorded' = candidates
    /\ user_data' = UserData_record_entries(user_data, candidates)
    /\ UNCHANGED <<numeric, packed_lm, nan_sort, current_state, user_data_lock, dp, yomi, words_ends_at, system_unigram_lm,
                   system_bigram_lm, lattice, k_best, resolved, cost_query,
                   reranking_weights, kbest_paths, kbest_paths_before, converted, pc>>

\* BigramWordViterbiEngine::learn on another thread: lock() waits while the
\* guard is held; Ok(guard) records, Err(poisoned) is logged
LockedLearn(candidates) ==
    /\ user_data_lock.holder = "none"
    /\ user_data.unigram.total_words + Len(candidates) <= MaxLearn
    /\ recorded' = candidates
    /\ user_data' = IF user_data_lock.poisoned THEN user_data
                    ELSE UserData_record_entries(user_data, candidates)
    /\ UNCHANGED <<numeric, packed_lm, nan_sort, current_state, user_data_lock, dp, yomi, words_ends_at, system_unigram_lm,
                   system_bigram_lm, lattice, k_best, resolved, cost_query,
                   reranking_weights, kbest_paths, kbest_paths_before, converted, pc>>

\* to_lattice: construct asks for the lock once per segment and unwraps it, so
\* a poisoned lock panics as soon as there is a segment
LockedToLattice ==
    /\ pc = "init"
    /\ user_data_lock.holder = "none"
    /\ IF user_data_lock.poisoned /\ DOMAIN words_ends_at # {}
       THEN /\ pc' = "panic"
            /\ lattice' = lattice
       ELSE /\ pc' = "to_lattice"
            /\ lattice' = construct(yomi, words_ends_at, SystemKanaKanjiDict,
                                    SystemSingleTermDict, user_data, system_unigram_lm)
    /\ UNCHANGED <<numeric, packed_lm, nan_sort, current_state, recorded, user_data_lock, dp, yomi, words_ends_at, system_unigram_lm,
                   system_bigram_lm, user_data, k_best, resolved, cost_query,
                   reranking_weights, kbest_paths, kbest_paths_before, converted>>

\* resolve_k_best up to the forward loop: the lock is taken once.  What
\* lock_user_data does with a poisoned lock is not modelled.
LockUserData(k) ==
    /\ pc = "to_lattice"
    /\ user_data_lock = Mutex_new
    /\ user_data_lock' = lock_user_data(user_data_lock)
    /\ dp' = [active |-> TRUE, k |-> k, i |-> 1, st |-> [err |-> "", map |-> <<>>],
              stores |-> {}]
    /\ pc' = "forward"
    /\ UNCHANGED <<numeric, packed_lm, nan_sort, current_state, recorded, yomi, words_ends_at, system_unigram_lm, system_bigram_lm,
                   user_data, lattice, k_best, resolved, cost_query, reranking_weights,
                   kbest_paths, kbest_paths_before, converted>>

\* One iteration of "for i in 1..yomi.len() + 2": the nodes ending at i get
\* their k-best entries from costs looked up in the user store as it is now.
\* A failure returns from resolve_k_best, which gives the guard back.
ForwardStep ==
    /\ pc = "forward"
    /\ dp.i <= StrLen(lattice.yomi) + 1
    /\ IF node_list(lattice, dp.i) = None
       THEN /\ dp' = [dp EXCEPT !.i = dp.i + 1]
            /\ UNCHANGED <<user_data_lock, k_best, pc>>
       ELSE LET st == ForwardNodes(lattice, dp.k, node_list(lattice, dp.i)[1], 1, dp.st,
                                   user_data, system_unigram_lm, system_bigram_lm)
            IN IF st.err # ""
               THEN /\ dp' = [dp EXCEPT !.active = FALSE, !.st = st,
                                        !.stores = dp.stores \cup {user_data}]
                    /\ user_data_lock' = drop_user_data(user_data_lock)
                    /\ k_best' = [k |-> dp.k, err |-> st.err, paths |-> <<>>,
                                  nodes |-> <<>>]
                    /\ pc' = "resolve_k_best"
               ELSE /\ dp' = [dp EXCEPT !.i = dp.i + 1, !.st = st,
                                        !.stores = dp.stores \cup {user_data}]
                    /\ UNCHANGED <<user_data_lock, k_best, pc>>
    /\ UNCHANGED <<numeric, packed_lm, nan_sort, current_state, recorded, yomi, words_ends_at, system_unigram_lm, system_bigram_lm,
                   user_data, lattice, resolved, cost_query, reranking_weights,
                   kbest_paths, kbest_paths_before, converted>>

\* After the loop and the costmap: drop(user_data)
DropUserData ==
    /\ pc = "forward"
    /\ dp.i > StrLen(lattice.yomi) + 1
    /\ dp' = [dp EXCEPT !.active = FALSE]
    /\ user_data_lock' = drop_user_data(user_data_lock)
    /\ pc' = "backtrack"
    /\ UNCHANGED <<numeric, packed_lm, nan_sort, current_state, recorded, yomi, words_ends_at, system_unigram_lm, system_bigram_lm,
                   user_data, lattice, k_best, resolved, cost_query, reranking_weights,
                   kbest_paths, kbest_paths_before, converted>>

\* The rest of resolve_k_best: backtracking and candidate collection, whose
\* cost lookups take the lock one by one
Backtrack ==
    /\ pc = "backtrack"
    /\ user_data_lock.holder = "none"
    /\ k_best' = [k |-> dp.k] @@ Backward(lattice, dp.st, user_data, system_unigram_lm,
                                          system_bigram_lm)
    /\ pc' = "resolve_k_best"
    /\ UNCHANGED <<numeric, packed_lm, nan_sort, current_state, recorded, user_data_lock, dp, yomi, words_ends_at, system_unigram_lm,
                   system_bigram_lm, user_data, lattice, resolved, cost_query,
                   reranking_weights, kbest_paths, kbest_paths_before, converted>>

NextLock ==
    \/ Poison
    \/ \E candidates \in LearnerLists : LockedLearn(candidates)
    \/ LockedToLattice
    \/ \E k \in {1, MaxK} : LockUserData(k)
    \/ ForwardStep
    \/ DropUserData
    \/ Backtrack

SpecLock == InitLock /\ [][NextLock]_vars

\* C15: when learn runs concurrently with resolve_k_best on the same user
\* store, the lock is held from before the first cost lookup of the forward
\* DP until after the last one and is released before backtracking: all node
\* and edge costs of one DP pass are computed against a single user-store
\* state, and learn never writes while the pass is under way.
ThmC15_LockHeldAcrossForwardPass ==
    /\ [](/\ dp.active => user_data_lock.holder = "resolver"
          /\ Cardinality(dp.stores) <= 1
          /\ pc \in {"backtrack", "resolve_k_best"} => user_data_lock.holder = "none")
    /\ [][dp.active => user_data' = user_data]_vars

\* a learn call got the lock between the forward pass and the return of
\* resolve_k_best: the pass of a two-clause reading saw one store, the store
\* now is another
WitC15_LearnedRightAfterPass ==
    /\ pc = "resolve_k_best"
    /\ k_best.err = ""
    /\ Len(lattice.yomi) = 2
    /\ Cardinality(dp.stores) = 1
    /\ user_data \notin dp.stores

\* C16: a poisoned user-store lock is recoverable: learn logs and leaves the
\* store unchanged, and lattice construction and cost lookup go on without
\* user costs instead of failing or panicking.
ClaimC16_PoisonedLockRecoverable ==
    user_data_lock.poisoned => pc # "panic"

-----------------------------------------------------------------------------
(* to_lattice: Segmenter::build, then GraphBuilder::construct               *)

\* Common-prefix search at character offset s: the ends of the trie's words
\* that start there, or the end of the single character when there is none
SegmentsFrom(reading, trie, s) ==
    LET found == {e \in s + 1..Len(reading) : SubSeq(reading, s + 1, e) \in trie}
    IN IF found = {} THEN {s + 1} ELSE found

\* The offsets the segmenter visits: 0 and the end of every segment it emitted
RECURSIVE Segmenter_queue(_, _, _)
Segmenter_queue(reading, trie, seen) ==
    LET next == seen \cup UNION {SegmentsFrom(reading, trie, s) :
                                    s \in {x \in seen : x < Len(reading)}}
    IN IF next = seen THEN seen ELSE Segmenter_queue(reading, trie, next)

\* A segmenter that searches at every offset of the reading
Segmenter_build_EveryOffset(reading, trie) ==
    SegmentationOf(reading,
                   UNION {{<<s, e>> : e \in SegmentsFrom(reading, trie, s)} :
                              s \in 0..Len(reading) - 1})

\* Segmenter::build(reading, None).  For the trie {abc, ab, c} and the reading
\* abc it gives {2: [ab], 3: [abc, c]} (test_resolver): no search starts at b.
Segmenter_build(reading, trie) ==
    SegmentationOf(reading,
                   UNION {{<<s, e>> : e \in SegmentsFrom(reading, trie, s)} :
                              s \in Segmenter_queue(reading, trie, {0}) \ {Len(reading)}})

LatticeChars == {"a", "b", "1"}

LatticeReadings == UNION {SeqsOfLen(LatticeChars, n) : n \in 1..MaxLen}

\* Words a kana trie of the model may hold
KanaTries ==
    {{},
     {<<"a", "b">>},
     {<<"a">>, <<"b">>, <<"a", "b">>},
     {<<"b">>, <<"1", "b">>}}

\* The unigram LM with a counter entry under its normalized key and with the
\* reserved sentinel keys
LatticeVocabulary ==
    UnigramVocabulary
    @@ (<< <<NUM, "Z">>, <<NUM, "b">> >> :> <<5, 24>>)
    @@ (<<BOS_SURFACE, BOS_SURFACE>> :> <<6, 40>>)
    @@ (<<EOS_SURFACE, EOS_SURFACE>> :> <<7, 56>>)

LatticeUnigramLMs ==
    {[entries |-> Restrict(LatticeVocabulary, S), total_words |-> 4, unique_words |-> 3] :
        S \in {{}, DOMAIN LatticeVocabulary}}

\* User stores: empty, or with a user dictionary entry and a learned list
LatticeUserData ==
    {EmptyUserData,
     [UserData_record_entries(EmptyUserData,
                              <<Candidate(<<"Y">>, <<"a">>, 0, FALSE),
                                Candidate(<<"Z">>, <<"b">>, 0, FALSE)>>)
        EXCEPT !.dict = (<<"b">> :> << <<"Z">>, <<"U">> >>)]}

InitLattice ==
    /\ yomi \in LatticeReadings
    /\ \E trie \in KanaTries : words_ends_at = Segmenter_build(yomi, trie)
    /\ system_unigram_lm \in LatticeUnigramLMs
    /\ system_bigram_lm \in {lm \in BigramLMs : lm.entries = BigramVocabulary}
    /\ user_data \in LatticeUserData
    /\ lattice = NoLattice
    /\ k_best = NoKBest
    /\ resolved = NoResolved
    /\ cost_query = NoQuery
    /\ reranking_weights = ReRankingWeights_default
    /\ kbest_paths = <<>>
    /\ kbest_paths_before = <<>>
    /\ converted = NoConverted
    /\ numeric = NoNumeric
    /\ packed_lm = NoPackedLM
    /\ nan_sort = NoSort
    /\ current_state = NoCurrentState
    /\ recorded = <<>>
    /\ user_data_lock = Mutex_new
    /\ dp = NoDP
    /\ pc = "init"

NextLattice ==
    \/ ToLattice
    \/ \E k \in {1, MaxK} : ResolveKBest(k)
    \/ Resolve

SpecLattice == InitLattice /\ [][NextLattice]_vars

\* The keys of the lattice that a chain of nodes links back to key 0
RECURSIVE ReachableKeys(_, _)
ReachableKeys(lat, keys) ==
    LET next == keys \cup {p \in DOMAIN lat.graph :
                              \E i \in 1..Len(lat.graph[p]) :
                                  lat.graph[p][i].start_pos \in keys}
    IN IF next = keys THEN keys ELSE ReachableKeys(lat, next)

IsSentinel(node) == node.surface \in {BOS_SURFACE, EOS_SURFACE}

\* What "carries node score 0" says of a sentinel
ScoreZero(node) ==
    /\ node.cost = 0
    /\ node.word_id_and_score # None =>
          /\ node.word_id_and_score[2] = 0
          /\ get_node_cost(user_data, system_unigram_lm, node) = 0

\* C18: in the lattice of a reading R every node other than the sentinels,
\* with start s and a yomi of k bytes, is stored in the list keyed s + k;
\* key 0 holds BOS and key len(R) + 1 holds EOS, whose start_pos is len(R);
\* BOS and EOS carry node score 0 even when the unigram LM holds their
\* reserved keys with another score.
ThmC18_NodesKeyedByEndOffset ==
    lattice # NoLattice =>
       /\ \A p \in DOMAIN lattice.graph : \A i \in 1..Len(lattice.graph[p]) :
              IsSentinel(lattice.graph[p][i])
              \/ p = lattice.graph[p][i].start_pos + StrLen(lattice.graph[p][i].yomi)
       /\ {0, StrLen(yomi) + 1} \subseteq DOMAIN lattice.graph
       /\ Len(lattice.graph[0]) = 1
       /\ lattice.graph[0][1].surface = BOS_SURFACE
       /\ ScoreZero(lattice.graph[0][1])
       /\ Len(lattice.graph[StrLen(yomi) + 1]) = 1
       /\ lattice.graph[StrLen(yomi) + 1][1].surface = EOS_SURFACE
       /\ lattice.graph[StrLen(yomi) + 1][1].start_pos = StrLen(yomi)
       /\ ScoreZero(lattice.graph[StrLen(yomi) + 1][1])

\* a lattice over a digit and a kana, one and three bytes long, built with an
\* LM that holds both reserved keys with scores other than 0
WitC18_ReservedKeysInLM ==
    /\ lattice # NoLattice
    /\ StrLen(yomi) = 4
    /\ unigram_find(system_unigram_lm, <<BOS_SURFACE, BOS_SURFACE>>) = <<6, 40>>
    /\ unigram_find(system_unigram_lm, <<EOS_SURFACE, EOS_SURFACE>>) = <<7, 56>>
    /\ lattice.graph[0][1].word_id_and_score = <<6, 0>>
    /\ lattice.graph[5][1].word_id_and_score = <<7, 0>>

\* C19: the hiragana and katakana surfaces of a segment are emitted as
\* auto-generated nodes only when not already present for the segment, so no
\* position list of the lattice holds two nodes with the same start_pos,
\* surface and yomi.
ClaimC19_NoDuplicateNodes ==
    lattice # NoLattice =>
       \A p \in DOMAIN lattice.graph : \A i, j \in 1..Len(lattice.graph[p]) :
           (/\ lattice.graph[p][i].start_pos = lattice.graph[p][j].start_pos
            /\ lattice.graph[p][i].surface = lattice.graph[p][j].surface
            /\ lattice.graph[p][i].yomi = lattice.graph[p][j].yomi) => i = j

StartsWithNUM(surface) == surface # <<>> /\ Head(surface) = NUM

\* The candidates of every clause of every path
CandidatesOf(paths) ==
    UNION {UNION {Range(paths[p][c]) : c \in 1..Len(paths[p])} : p \in 1..Len(paths)}

\* C20: normalizing to <NUM> only forms LM lookup keys: with dictionaries that
\* supply no surface starting with <NUM>, no WordNode that construct builds
\* and no Candidate that resolve_k_best or resolve returns has a surface
\* starting with <NUM>.
ThmC20_NUMOnlyInLookupKeys ==
    /\ lattice # NoLattice =>
          \A p \in DOMAIN lattice.graph : \A i \in 1..Len(lattice.graph[p]) :
              ~StartsWithNUM(lattice.graph[p][i].surface)
    /\ \A cand \in CandidatesOf(k_best.paths) \cup CandidatesOf(<<resolved.path>>) :
          ~StartsWithNUM(cand.surface)

\* the segment 1b got the node 1Z with the id and score the LM holds under
\* <NUM>Z/<NUM>b, and resolve returned 1Z as a candidate
WitC20_FoundUnderNormalizedKey ==
    /\ lattice # NoLattice
    /\ \E p \in DOMAIN lattice.graph : \E i \in 1..Len(lattice.graph[p]) :
          /\ lattice.graph[p][i].surface = <<"1", "Z">>
          /\ lattice.graph[p][i].word_id_and_score =
                 LatticeVocabulary[<< <<NUM, "Z">>, <<NUM, "b">> >>]
    /\ \E cand \in CandidatesOf(<<resolved.path>>) : cand.surface = <<"1", "Z">>
    /\ CandidatesOf(k_best.paths) # {}

-----------------------------------------------------------------------------
(* The three <NUM> normalizers and the kana numeric parser, called on their *)
(* own                                                                       *)

\* The conversion query at rest
QueryIdle ==
    /\ yomi = <<>>
    /\ words_ends_at = <<>>
    /\ system_unigram_lm = CostUnigramLM
    /\ system_bigram_lm \in {lm \in BigramLMs : lm.entries = BigramVocabulary}
    /\ user_data = EmptyUserData
    /\ lattice = NoLattice
    /\ k_best = NoKBest
    /\ resolved = NoResolved
    /\ cost_query = NoQuery
    /\ reranking_weights = ReRankingWeights_default
    /\ kbest_paths = <<>>
    /\ kbest_paths_before = <<>>
    /\ converted = NoConverted
    /\ recorded = <<>>
    /\ user_data_lock = Mutex_new
    /\ dp = NoDP

\* akaza-data utils::normalize_num_token: the token itself (Cow::Borrowed) or
\* "<NUM>{suffix}/<NUM>{suffix}" with the suffix of the surface on both sides
normalize_num_token(word) ==
    LET surface == word[1]
        digit_end == DigitEnd(surface)
        suffix == DropChars(surface, digit_end)
    IN IF digit_end = 0 THEN word
       ELSE IF suffix = <<>> THEN word
       ELSE << <<NUM>> \o suffix, <<NUM>> \o suffix >>

AMBIGUOUS_SINGLE_CHAR_NUMERALS == {<<"ni">>}

MIN_COUNTER_LEN_FOR_KANA_NUMERIC == 2

\* The splits of s that parse_kana_numeric_prefix_before_counter accepts when
\* single-character kana numerals are let through
KanaSplits_NoAmbiguityGuard(s) ==
    {split \in 1..Len(s) - 1 :
        /\ \E i \in 1..Len(counter_yomi_aliases) :
              /\ SubSeq(s, split + 1, Len(s)) = counter_yomi_aliases[i]
              /\ Len(counter_yomi_aliases[i]) >= MIN_COUNTER_LEN_FOR_KANA_NUMERIC
        /\ parse_kana_number_exact(SubSeq(s, 1, split))}

\* The iterations of the loop over char_indices().skip(1) that assign best
KanaSplits(s) ==
    {split \in 1..Len(s) - 1 :
        /\ \E i \in 1..Len(counter_yomi_aliases) :
              /\ SubSeq(s, split + 1, Len(s)) = counter_yomi_aliases[i]
              /\ Len(counter_yomi_aliases[i]) >= MIN_COUNTER_LEN_FOR_KANA_NUMERIC
        /\ SubSeq(s, 1, split) \notin AMBIGUOUS_SINGLE_CHAR_NUMERALS
        /\ parse_kana_number_exact(SubSeq(s, 1, split))}

\* parse_kana_numeric_prefix_before_counter: Some(<<consumed characters>>) of
\* the last accepted split, or None
parse_kana_numeric_prefix_before_counter(s) ==
    IF KanaSplits(s) = {} THEN None
    ELSE <<CHOOSE split \in KanaSplits(s) : \A other \in KanaSplits(s) : other <= split>>

SurfaceChars == {"1", "F1", "k1", "HIKI", "KO", "X"}

KeyReadings ==
    {<<"1", "hi", "ki">>, <<"1", "bi", "ki">>, <<"sa", "n", "bi", "ki">>, <<"1", "ko">>,
     <<"1">>, <<"hi", "ki">>, <<"ni", "hi", "ki">>, <<"1", "a">>}

\* surface/reading keys handed to the normalizers
NumericKeys ==
    {<<surface, reading>> :
        surface \in UNION {SeqsOfLen(SurfaceChars, n) : n \in 0..MaxLen},
        reading \in KeyReadings}

KanaChars == {"ni", "sa", "n", "hi", "ki", "bi", "ko"}

\* readings handed to the kana numeric parser
KanaReadings == UNION {SeqsOfLen(KanaChars, n) : n \in 1..MaxLen + 2}

InitNumeric ==
    /\ QueryIdle
    /\ numeric = NoNumeric
    /\ packed_lm = NoPackedLM
    /\ nan_sort = NoSort
    /\ current_state = NoCurrentState
    /\ pc = "init"

\* One key through normalize_surface_for_lm, normalize_counter_key_for_lm and
\* normalize_num_token
NormalizeKey(k) ==
    /\ pc = "init"
    /\ numeric' = [op |-> "normalize", key |-> k,
                   surface_for_lm |-> normalize_surface_for_lm(k),
                   counter_key |-> normalize_counter_key_for_lm(k),
                   num_token |-> normalize_num_token(k)]
    /\ pc' = "normalize"
    /\ UNCHANGED <<query_vars, packed_lm, nan_sort, current_state>>

\* One reading through parse_kana_numeric_prefix_before_counter
ParseKanaPrefix(s) ==
    /\ pc = "init"
    /\ numeric' = [op |-> "parse_kana", reading |-> s,
                   prefix |-> parse_kana_numeric_prefix_before_counter(s)]
    /\ pc' = "parse_kana"
    /\ UNCHANGED <<query_vars, packed_lm, nan_sort, current_state>>

NextNumeric ==
    \/ \E k \in NumericKeys : NormalizeKey(k)
    \/ \E s \in KanaReadings : ParseKanaPrefix(s)

SpecNumeric == InitNumeric /\ [][NextNumeric]_vars

AllAsciiDigits(surface) == DigitEnd(surface) = Len(surface)

IsNUMKey(k) == Head(k[1]) = NUM

\* C21 as stated: a key whose surface consists only of ASCII digits is never
\* <NUM>-normalized by any of the three normalizers, a key whose surface does
\* not start with a digit is left unnormalized, and only digits followed by a
\* non-empty suffix yield a <NUM> key.
ClaimC21_OnlyDigitPlusSuffixNormalized ==
    numeric.op = "normalize" =>
       /\ (AllAsciiDigits(numeric.key[1]) \/ DigitEnd(numeric.key[1]) = 0) =>
             /\ numeric.surface_for_lm = None
             /\ numeric.counter_key = None
             /\ numeric.num_token = numeric.key
       /\ (numeric.surface_for_lm # None \/ numeric.counter_key # None
              \/ numeric.num_token # numeric.key) =>
             /\ DigitEnd(numeric.key[1]) > 0
             /\ DigitEnd(numeric.key[1]) < Len(numeric.key[1])

\* C21, amended: no normalizer gives a <NUM> key to a surface of ASCII digits
\* alone; normalize_surface_for_lm and normalize_num_token leave every key
\* alone whose surface does not start with an ASCII digit, and
\* normalize_counter_key_for_lm every key whose surface does not start with an
\* ASCII digit, a full-width digit or a kanji numeral; a <NUM> key comes only
\* from such a numeric prefix followed by a non-empty suffix.
ThmC21_NumericPrefixPlusSuffixNormalized ==
    numeric.op = "normalize" =>
       /\ AllAsciiDigits(numeric.key[1]) =>
             /\ numeric.surface_for_lm = None
             /\ numeric.counter_key = None
             /\ numeric.num_token = numeric.key
       /\ DigitEnd(numeric.key[1]) = 0 =>
             /\ numeric.surface_for_lm = None
             /\ numeric.num_token = numeric.key
       /\ (numeric.surface_for_lm # None \/ numeric.num_token # numeric.key) =>
             /\ DigitEnd(numeric.key[1]) < Len(numeric.key[1])
             /\ IsNUMKey(numeric.num_token)
       /\ numeric.surface_for_lm # None => IsNUMKey(numeric.surface_for_lm[1])
       /\ numeric.counter_key # None =>
             /\ parse_numeric_prefix_surface(numeric.key[1]) > 0
             /\ parse_numeric_prefix_surface(numeric.key[1]) < Len(numeric.key[1])
             /\ IsNUMKey(numeric.counter_key[1])

\* the surface k1 HIKI starts with a kanji numeral and its key was normalized
\* by normalize_counter_key_for_lm alone
WitC21_KanjiNumeralSurfaceNormalized ==
    /\ numeric.op = "normalize"
    /\ numeric.key = << <<"k1", "HIKI">>, <<"sa", "n", "bi", "ki">> >>
    /\ numeric.counter_key = << << <<NUM, "HIKI">>, <<NUM, "hi", "ki">> >> >>
    /\ numeric.surface_for_lm = None
    /\ numeric.num_token = numeric.key

\* C22: parse_kana_numeric_prefix_before_counter returns None whenever the
\* numeric prefix is exactly a single-character kana numeral, and whenever the
\* counter part is a single-character alias; it matches only when the suffix
\* is exactly a counter alias of at least 2 characters.
ThmC22_KanaPathwayGuards ==
    numeric.op = "parse_kana" =>
       /\ (\E p \in AMBIGUOUS_SINGLE_CHAR_NUMERALS :
              \E i \in 1..Len(counter_yomi_aliases) :
                  numeric.reading = p \o counter_yomi_aliases[i])
             => numeric.prefix = None
       /\ (/\ Len(numeric.reading) >= 2
           /\ <<numeric.reading[Len(numeric.reading)]>> \in Range(counter_yomi_aliases)
           /\ parse_kana_number_exact(SubSeq(numeric.reading, 1,
                                             Len(numeric.reading) - 1)))
             => numeric.prefix = None
       /\ numeric.prefix # None =>
             /\ DropChars(numeric.reading, numeric.prefix[1]) \in Range(counter_yomi_aliases)
             /\ Len(DropChars(numeric.reading, numeric.prefix[1])) >= 2
             /\ SubSeq(numeric.reading, 1, numeric.prefix[1])
                   \notin AMBIGUOUS_SINGLE_CHAR_NUMERALS

\* ni hi ki, the numeral ni before the counter hi ki, was refused
WitC22_SingleCharNumeralRefused ==
    /\ numeric.op = "parse_kana"
    /\ numeric.reading = <<"ni", "hi", "ki">>
    /\ parse_kana_number_exact(<<"ni">>)
    /\ numeric.prefix = None

\* C27: for every token key, normalize_surface_for_lm yields the <NUM> key
\* under which normalize_num_token stored the token at training time.
ClaimC27_LookupKeyIsTrainingKey ==
    (numeric.op = "normalize" /\ numeric.surface_for_lm # None) =>
        numeric.surface_for_lm[1] = numeric.num_token

-----------------------------------------------------------------------------
(* The packed language models (system_bigram.rs, system_unigram_lm.rs).     *)
(* A trie is the set of its keys, a key a sequence of bytes 0..255; scores  *)
(* are f32 values in units of 1/4096, f16 values their 16-bit patterns.     *)

RECURSIVE Log2Floor(_)
Log2Floor(n) == IF n <= 1 THEN 0 ELSE 1 + Log2Floor(n \div 2)

RECURSIVE Pow2(_)
Pow2(n) == IF n = 0 THEN 1 ELSE 2 * Pow2(n - 1)

\* The 11-bit significand of a positive score, rounded to nearest, ties to even
F16Significand(n) ==
    LET L == Log2Floor(n)
        q == n \div Pow2(L - 10)
        r == n % Pow2(L - 10)
        half == Pow2(L - 10) \div 2
    IN IF L <= 10 THEN n * Pow2(10 - L)
       ELSE IF r > half \/ (r = half /\ q % 2 = 1) THEN q + 1
       ELSE q

\* f16::from_f32(score).to_bits() for scores from 2^-12 up to the f16 range:
\* biased exponent floor(log2 score) + 15, ten mantissa bits
f16_from_f32(n) ==
    IF n = 0 THEN 0
    ELSE (Log2Floor(n) + 3) * 1024 + F16Significand(n) - 1024

\* f16::to_le_bytes
f16_to_le_bytes(bits) == <<bits % 256, bits \div 256>>

\* f16::from_le_bytes(last2).to_f32(): the value as [mantissa, exponent] with
\* value = mantissa * 2^exponent (sign bit in neg)
f16_from_le_bytes(last2) ==
    LET bits == last2[1] + 256 * last2[2]
        e == (bits \div 1024) % 32
        m == bits % 1024
    IN [neg |-> bits >= 32768,
        mantissa |-> IF e = 0 THEN m ELSE 1024 + m,
        exponent |-> IF e = 0 THEN -24 ELSE e - 25]

\* i32::to_le_bytes()[0..3]
LeBytes3(id) ==
    IF id >= 0 THEN <<id % 256, (id \div 256) % 256, (id \div 65536) % 256>>
    ELSE <<255 - ((-id - 1) % 256), 255 - (((-id - 1) \div 256) % 256),
           255 - (((-id - 1) \div 65536) % 256)>>

\* i32::to_le_bytes()[3]
FourthByte(id) ==
    IF id >= 0 THEN id \div 16777216 ELSE 255 - ((-id - 1) \div 16777216)

\* i32::from_le_bytes([b0, b1, b2, 0])
IdOfBytes(b) == b[1] + 256 * b[2] + 65536 * b[3]

\* "__DEFAULT_EDGE_COST__" in ASCII
DEFAULT_COST_KEY ==
    <<95, 95, 68, 69, 70, 65, 85, 76, 84, 95, 69, 68, 71, 69, 95, 67, 79, 83, 84, 95, 95>>

\* format!("{DEFAULT_COST_KEY}\t{score}") for the default cost 20.0: the key,
\* a tab and "20"
DefaultCostEntry == DEFAULT_COST_KEY \o <<9, 50, 48>>

\* The key of add with the two ids in the other order
PackedKey_IdsSwapped(word_id1, word_id2, score) ==
    LeBytes3(word_id2) \o LeBytes3(word_id1) \o f16_to_le_bytes(f16_from_f32(score))

\* The key add pushes: 3 bytes of each id and the 2 bytes of the f16 score
PackedKey(word_id1, word_id2, score) ==
    LeBytes3(word_id1) \o LeBytes3(word_id2) \o f16_to_le_bytes(f16_from_f32(score))

\* assert_eq!(id1_bytes[3], 0); assert_eq!(id2_bytes[3], 0) with the cap of the
\* unigram vocabulary in their place
AddAccepts_VocabCap(word_id1, word_id2) ==
    /\ word_id1 >= 0 /\ word_id1 < 8388608
    /\ word_id2 >= 0 /\ word_id2 < 8388608

\* assert_eq!(id1_bytes[3], 0); assert_eq!(id2_bytes[3], 0)
AddAccepts(word_id1, word_id2) == FourthByte(word_id1) = 0 /\ FourthByte(word_id2) = 0

\* Trie::predictive_search: the keys that start with the query
predictive_search(trie, query) ==
    {kw \in trie : Len(kw) >= Len(query) /\ SubSeq(kw, 1, Len(query)) = query}

\* What get_edge_cost makes of the key the search found first
EdgeCostOfKey(keyword) ==
    IF Len(keyword) < 2 THEN None
    ELSE <<f16_from_le_bytes(SubSeq(keyword, Len(keyword) - 1, Len(keyword)))>>

\* get_edge_cost looking for the exact 8-byte entry
EdgeCosts_ExactLength(trie, word_id1, word_id2) ==
    IF {kw \in predictive_search(trie, LeBytes3(word_id1) \o LeBytes3(word_id2)) :
           Len(kw) = 8} = {}
    THEN {None}
    ELSE {EdgeCostOfKey(kw) :
            kw \in {x \in predictive_search(trie, LeBytes3(word_id1) \o LeBytes3(word_id2)) :
                        Len(x) = 8}}

\* MarisaSystemBigramLM::get_edge_cost (get_skip_cost has the same body): the
\* results it can return; which key a predictive search reports first when
\* several share the prefix is up to the trie
EdgeCosts(trie, word_id1, word_id2) ==
    IF predictive_search(trie, LeBytes3(word_id1) \o LeBytes3(word_id2)) = {} THEN {None}
    ELSE {EdgeCostOfKey(kw) :
            kw \in predictive_search(trie, LeBytes3(word_id1) \o LeBytes3(word_id2))}

\* as_hash_map: the (id1, id2, cost) triples of the 8-byte keys
HashMapEntries(trie) ==
    {<<IdOfBytes(SubSeq(word, 1, 3)), IdOfBytes(SubSeq(word, 4, 6)),
       f16_from_le_bytes(SubSeq(word, 7, 8))>> : word \in {kw \in trie : Len(kw) = 8}}

\* find_from_trie on a key found for word + 0xff: [panic, found]
UnigramOfKey(keyword) ==
    LET idx == CHOOSE i \in 1..Len(keyword) :
                  keyword[i] = 255 /\ \A j \in 1..i - 1 : keyword[j] # 255
    IN IF Len(keyword) < idx + 4 THEN [panic |-> TRUE, found |-> None]
       ELSE [panic |-> FALSE, found |-> <<SubSeq(keyword, idx + 1, idx + 4)>>]

\* MarisaSystemUnigramLM::find_from_trie: the outcomes it can have
find_from_trie(trie, word) ==
    IF predictive_search(trie, word \o <<255>>) = {}
    THEN {[panic |-> FALSE, found |-> None]}
    ELSE {UnigramOfKey(kw) : kw \in predictive_search(trie, word \o <<255>>)}

\* wordcnt.len() >= 8388608 of make_stats_system_unigram_lm
MaxVocab == 8388608

\* make_stats_system_unigram_lm after the two sentinels are inserted
UnigramProducerAccepts(vocab_len) == ~(vocab_len >= MaxVocab)

\* Scores: 1.0 and 5.11
PackedScores == {4096, 20931}

\* Id pairs handed to add: small ids, the top of the 3-byte range, ids past it,
\* and the pair whose packed bytes spell "__DEFA"
PackedPairs ==
    {<<1, 2>>, <<1, 8388608>>, <<16777215, 8388607>>, <<4480863, 4277829>>,
     <<16777216, 1>>, <<1, -1>>}

\* Id pairs looked up
LookupPairs == {<<1, 2>>, <<2, 1>>, <<1, 8388608>>, <<16777215, 8388607>>,
                <<4480863, 4277829>>}

\* Keys of a model file that add did not write: one and three bytes where
\* the two of the score belong
MalformedKeys == {LeBytes3(2) \o LeBytes3(1) \o <<7>>,
                  LeBytes3(2) \o LeBytes3(1) \o <<7, 8, 9>>}

\* A unigram trie: a/a with a score of four bytes, b/b with two, c/c with five
UnigramTrie ==
    {<<97, 255, 0, 0, 128, 63>>, <<98, 255, 1, 2>>, <<99, 255, 1, 2, 3, 4, 5>>}

NewPackedLM ==
    [op |-> "new", keyset |-> {}, added |-> {}, built |-> FALSE, query |-> <<>>,
     result |-> None, map |-> {}]

InitPacked ==
    /\ QueryIdle
    /\ numeric = NoNumeric
    /\ packed_lm = NewPackedLM
    /\ nan_sort = NoSort
    /\ current_state = NoCurrentState
    /\ pc = "init"

\* MarisaSystemBigramLMBuilder::add
PackedAdd(word_id1, word_id2, score) ==
    /\ packed_lm.op # "none"
    /\ ~packed_lm.built
    /\ packed_lm.op # "add panicked"
    /\ Cardinality(packed_lm.keyset) < MaxEntries
    /\ packed_lm' =
          IF AddAccepts(word_id1, word_id2)
          THEN [packed_lm EXCEPT !.op = "add", !.query = <<word_id1, word_id2>>,
                   !.keyset = @ \cup {PackedKey(word_id1, word_id2, score)},
                   !.added = @ \cup {<<word_id1, word_id2, score>>}]
          ELSE [packed_lm EXCEPT !.op = "add panicked", !.query = <<word_id1, word_id2>>]
    /\ pc' = "add"
    /\ UNCHANGED <<query_vars, numeric, nan_sort, current_state>>

\* A key of wrong length in the keyset of a model file written elsewhere
PushMalformed(key_) ==
    /\ packed_lm.op # "none"
    /\ ~packed_lm.built
    /\ packed_lm.op # "add panicked"
    /\ Cardinality(packed_lm.keyset) < MaxEntries
    /\ packed_lm' = [packed_lm EXCEPT !.op = "push", !.keyset = @ \cup {key_}]
    /\ pc' = "push"
    /\ UNCHANGED <<query_vars, numeric, nan_sort, current_state>>

\* set_default_edge_cost(20.0) and build(): the trie holds the keyset and the
\* default cost key
PackedBuild ==
    /\ packed_lm.op # "none"
    /\ ~packed_lm.built
    /\ packed_lm.op # "add panicked"
    /\ packed_lm' = [packed_lm EXCEPT !.op = "build", !.built = TRUE,
                        !.keyset = @ \cup {DefaultCostEntry}]
    /\ pc' = "build"
    /\ UNCHANGED <<query_vars, numeric, nan_sort, current_state>>

\* get_edge_cost(word_id1, word_id2) on the built model
GetPackedEdgeCost(word_id1, word_id2) ==
    /\ packed_lm.op # "none"
    /\ packed_lm.built
    /\ \E cost \in EdgeCosts(packed_lm.keyset, word_id1, word_id2) :
          packed_lm' = [packed_lm EXCEPT !.op = "get_edge_cost",
                           !.query = <<word_id1, word_id2>>, !.result = cost]
    /\ pc' = "get_edge_cost"
    /\ UNCHANGED <<query_vars, numeric, nan_sort, current_state>>

\* as_hash_map() on the built model
AsHashMap ==
    /\ packed_lm.op # "none"
    /\ packed_lm.built
    /\ packed_lm' = [packed_lm EXCEPT !.op = "as_hash_map",
                        !.map = HashMapEntries(packed_lm.keyset)]
    /\ pc' = "as_hash_map"
    /\ UNCHANGED <<query_vars, numeric, nan_sort, current_state>>

\* MarisaSystemUnigramLM::find(word) on UnigramTrie
FindUnigram(word) ==
    /\ packed_lm.op = "new"
    /\ \E outcome \in find_from_trie(UnigramTrie, word) :
          packed_lm' = [packed_lm EXCEPT !.op = "find", !.query = word,
                           !.result = outcome]
    /\ pc' = "find"
    /\ UNCHANGED <<query_vars, numeric, nan_sort, current_state>>

\* make_stats_system_unigram_lm on a vocabulary of vocab_len words
MakeUnigram(vocab_len) ==
    /\ packed_lm.op = "new"
    /\ packed_lm' = [packed_lm EXCEPT
                        !.op = IF UnigramProducerAccepts(vocab_len) THEN "make_unigram"
                               ELSE "make_unigram panicked",
                        !.query = <<vocab_len>>]
    /\ pc' = "make_unigram"
    /\ UNCHANGED <<query_vars, numeric, nan_sort, current_state>>

NextPacked ==
    \/ \E pair \in PackedPairs : \E score \in PackedScores :
          PackedAdd(pair[1], pair[2], score)
    \/ \E key_ \in MalformedKeys : PushMalformed(key_)
    \/ PackedBuild
    \/ \E pair \in LookupPairs : GetPackedEdgeCost(pair[1], pair[2])
    \/ AsHashMap
    \/ \E word \in {<<97>>, <<98>>, <<99>>, <<100>>} : FindUnigram(word)
    \/ \E vocab_len \in {MaxVocab - 1, MaxVocab, MaxVocab + 1} : MakeUnigram(vocab_len)

SpecPacked == InitPacked /\ [][NextPacked]_vars

\* The f16 quantization of a score, as get_edge_cost returns it
Quantized(score) == f16_from_le_bytes(f16_to_le_bytes(f16_from_f32(score)))

\* The scores a pair was added with
AddedScores(word_id1, word_id2) ==
    {t[3] : t \in {a \in packed_lm.added : a[1] = word_id1 /\ a[2] = word_id2}}

\* The keys of the trie that start with the packed pair
KeysOfPair(word_id1, word_id2) ==
    predictive_search(packed_lm.keyset, LeBytes3(word_id1) \o LeBytes3(word_id2))

ClaimC24_MalformedEntryIsAbsent ==
    /\ (/\ packed_lm.op = "get_edge_cost"
        /\ KeysOfPair(packed_lm.query[1], packed_lm.query[2]) \subseteq MalformedKeys)
          => packed_lm.result = None
    /\ (/\ packed_lm.op = "find"
        /\ \A kw \in predictive_search(UnigramTrie, packed_lm.query \o <<255>>) :
              Len(kw) # Len(packed_lm.query) + 5)
          => packed_lm.result = [panic |-> FALSE, found |-> None]

ClaimC28_NeverAddedPairIsNone ==
    (/\ packed_lm.op = "get_edge_cost"
     /\ packed_lm.keyset \cap MalformedKeys = {}
     /\ \A i \in 1..2 : packed_lm.query[i] >= 0 /\ packed_lm.query[i] <= 8388607
     /\ AddedScores(packed_lm.query[1], packed_lm.query[2]) = {})
       => packed_lm.result = None

-----------------------------------------------------------------------------
(* Cost comparisons on f32 values that may be NaN (graph_resolver.rs,       *)
(* reranking.rs). An f32 is a finite number, +infinity or NaN.              *)

Num(n) == [k |-> "num", v |-> n]
Inf == [k |-> "inf", v |-> 0]
NaN == [k |-> "nan", v |-> 0]

\* f32 multiplication: NaN propagates and infinity times zero is NaN
F32Mul(a, b) ==
    IF a.k = "nan" \/ b.k = "nan" THEN NaN
    ELSE IF a.k = "inf" \/ b.k = "inf"
         THEN (IF (a.k = "num" /\ a.v = 0) \/ (b.k = "num" /\ b.v = 0) THEN NaN ELSE Inf)
    ELSE Num(a.v * b.v)

\* f32 addition of values that are not negative
F32Add(a, b) ==
    IF a.k = "nan" \/ b.k = "nan" THEN NaN
    ELSE IF a.k = "inf" \/ b.k = "inf" THEN Inf
    ELSE Num(a.v + b.v)

\* f32::partial_cmp: None when either side is NaN
partial_cmp(a, b) ==
    IF a.k = "nan" \/ b.k = "nan" THEN None
    ELSE IF a.k = "inf" /\ b.k = "inf" THEN <<"Equal">>
    ELSE IF a.k = "inf" THEN <<"Greater">>
    ELSE IF b.k = "inf" THEN <<"Less">>
    ELSE IF a.v < b.v THEN <<"Less">>
    ELSE IF a.v > b.v THEN <<"Greater">>
    ELSE <<"Equal">>

\* partial_cmp(..).unwrap_or(Ordering::Equal)
CompareOrEqual(a, b) ==
    IF partial_cmp(a, b) = None THEN "Equal" ELSE partial_cmp(a, b)[1]

\* partial_cmp(..).unwrap(): "panic" on None
CompareUnwrap(a, b) ==
    IF partial_cmp(a, b) = None THEN "panic" ELSE partial_cmp(a, b)[1]

\* One insertion of the stable sort under unwrap_or(Equal): x moves left past
\* every element it is Less than
RECURSIVE InsertOrEqual(_, _)
InsertOrEqual(sorted, x) ==
    IF sorted = <<>> THEN <<x>>
    ELSE IF CompareOrEqual(x, sorted[Len(sorted)]) = "Less"
         THEN Append(InsertOrEqual(SubSeq(sorted, 1, Len(sorted) - 1), x), sorted[Len(sorted)])
    ELSE Append(sorted, x)

\* slice::sort_by(|a, b| a.partial_cmp(b).unwrap_or(Ordering::Equal))
RECURSIVE SortOrEqual(_)
SortOrEqual(costs) ==
    IF costs = <<>> THEN <<>>
    ELSE InsertOrEqual(SortOrEqual(SubSeq(costs, 1, Len(costs) - 1)), costs[Len(costs)])

\* One insertion under unwrap(): the sort panics as soon as a comparison does
RECURSIVE InsertUnwrap(_, _)
InsertUnwrap(sorted, x) ==
    IF sorted.panic THEN sorted
    ELSE IF sorted.out = <<>> THEN [panic |-> FALSE, out |-> <<x>>]
    ELSE IF CompareUnwrap(x, sorted.out[Len(sorted.out)]) = "panic"
         THEN [panic |-> TRUE, out |-> <<>>]
    ELSE IF CompareUnwrap(x, sorted.out[Len(sorted.out)]) = "Less"
         THEN [panic |-> InsertUnwrap([sorted EXCEPT !.out = SubSeq(@, 1, Len(@) - 1)], x).panic,
               out |-> IF InsertUnwrap([sorted EXCEPT !.out = SubSeq(@, 1, Len(@) - 1)], x).panic
                       THEN <<>>
                       ELSE Append(InsertUnwrap([sorted EXCEPT !.out = SubSeq(@, 1, Len(@) - 1)],
                                                x).out,
                                   sorted.out[Len(sorted.out)])]
    ELSE [sorted EXCEPT !.out = Append(@, x)]

\* slice::sort_by(|a, b| a.partial_cmp(b).unwrap()): [panic, out]
RECURSIVE SortUnwrap(_)
SortUnwrap(costs) ==
    IF costs = <<>> THEN [panic |-> FALSE, out |-> <<>>]
    ELSE InsertUnwrap(SortUnwrap(SubSeq(costs, 1, Len(costs) - 1)), costs[Len(costs)])

\* The rerank_cost of a path with the given unigram cost, bigram cost 0, no
\* unknown bigram, one token and skip-bigram cost 0
F32RerankCost(weights, unigram_cost) ==
    F32Add(F32Add(F32Add(F32Add(unigram_cost,
                                F32Mul(weights.bigram_weight, Num(0))),
                         F32Mul(weights.unknown_bigram_weight, Num(0))),
                  F32Mul(weights.length_weight, Num(1))),
           F32Mul(weights.skip_bigram_weight, Num(0)))

\* ReRankingWeights::default() with the bigram weight replaced
F32Weights(bigram_weight) ==
    [bigram_weight |-> bigram_weight, length_weight |-> Num(2),
     unknown_bigram_weight |-> Num(1), skip_bigram_weight |-> Num(0)]

F32Costs == {Num(0), Num(1), NaN}

CostLists == UNION {[1..n -> F32Costs] : n \in 0..MaxCosts}

InitSort ==
    /\ QueryIdle
    /\ numeric = NoNumeric
    /\ packed_lm = NoPackedLM
    /\ \E costs \in CostLists :
          nan_sort = [op |-> "init", costs |-> costs, panic |-> FALSE, out |-> <<>>]
    /\ current_state = NoCurrentState
    /\ pc = "init"

\* The sort of the k-best entries of one node (resolve_k_best)
SortKBestEntries ==
    /\ pc = "init" /\ nan_sort.op = "init"
    /\ nan_sort' = [nan_sort EXCEPT !.op = "entries.sort_by",
                       !.out = SortOrEqual(nan_sort.costs)]
    /\ pc' = "sorted"
    /\ UNCHANGED <<query_vars, numeric, packed_lm, current_state>>

\* BreakDown::cmp of the first two costs (head_cost + tail_cost of each)
BreakDownCmp ==
    /\ pc = "init" /\ nan_sort.op = "init"
    /\ Len(nan_sort.costs) >= 2
    /\ nan_sort' = [nan_sort EXCEPT !.op = "BreakDown::cmp",
                       !.out = <<CompareOrEqual(nan_sort.costs[1], nan_sort.costs[2])>>]
    /\ pc' = "compared"
    /\ UNCHANGED <<query_vars, numeric, packed_lm, current_state>>

\* ReRankingWeights::rerank on paths with the given unigram costs
F32Rerank(bigram_weight) ==
    /\ pc = "init" /\ nan_sort.op = "init"
    /\ nan_sort' =
          [nan_sort EXCEPT !.op = "rerank",
              !.panic = SortUnwrap([i \in 1..Len(nan_sort.costs) |->
                                      F32RerankCost(F32Weights(bigram_weight),
                                                    nan_sort.costs[i])]).panic,
              !.out = SortUnwrap([i \in 1..Len(nan_sort.costs) |->
                                    F32RerankCost(F32Weights(bigram_weight),
                                                  nan_sort.costs[i])]).out]
    /\ pc' = "reranked"
    /\ UNCHANGED <<query_vars, numeric, packed_lm, current_state>>

NextSort ==
    \/ SortKBestEntries
    \/ BreakDownCmp
    \/ \E bigram_weight \in {Num(1), Inf} : F32Rerank(bigram_weight)

SpecSort == InitSort /\ [][NextSort]_vars

\* C26: a NaN cost never causes a panic: the sort of the k-best entries,
\* BreakDown::cmp and the sort of rerank all treat NaN as equal.
ClaimC26_NaNNeverPanics ==
    nan_sort.op \in {"entries.sort_by", "BreakDown::cmp", "rerank"} => ~nan_sort.panic

-----------------------------------------------------------------------------
(* The conversion state of the input method (ibus-akaza current_state.rs).  *)
(* A clause is its list of candidate surfaces; clause i of the code is      *)
(* clauses[i + 1]. The display fields (preedit, auxiliary text, lookup      *)
(* table) are written from the fields below and read by none of them.       *)

\* fn next_clause_index(current, len, dir)
next_clause_index(current, len, dir) ==
    IF len <= 1 THEN 0
    ELSE IF dir >= 0 THEN (IF current + 1 >= len THEN 0 ELSE current + 1)
    ELSE IF current = 0 THEN len - 1
    ELSE current - 1

\* The index build_string_from_clauses and collect_first_candidates read:
\* the selected one, or 0 when it is out of range or nothing is selected
SafeIndex(node_selected, clauseid, len) ==
    IF clauseid \in DOMAIN node_selected /\ ~(node_selected[clauseid] >= len)
    THEN node_selected[clauseid]
    ELSE 0

\* fn build_string_from_clauses: [panic, out]; nodes[safe_idex] panics when
\* the index is not below nodes.len()
RECURSIVE build_string_from_clauses(_, _)
build_string_from_clauses(clauses, node_selected) ==
    IF clauses = <<>> THEN [panic |-> FALSE, out |-> <<>>]
    ELSE IF build_string_from_clauses(SubSeq(clauses, 1, Len(clauses) - 1), node_selected).panic
         THEN [panic |-> TRUE, out |-> <<>>]
    ELSE IF SafeIndex(node_selected, Len(clauses) - 1, Len(clauses[Len(clauses)]))
              >= Len(clauses[Len(clauses)])
         THEN [panic |-> TRUE, out |-> <<>>]
    ELSE [panic |-> FALSE,
          out |-> Append(build_string_from_clauses(SubSeq(clauses, 1, Len(clauses) - 1),
                                                   node_selected).out,
                         clauses[Len(clauses)][SafeIndex(node_selected, Len(clauses) - 1,
                                                         Len(clauses[Len(clauses)])) + 1])]

\* fn collect_first_candidates: [panic, out]; a clause without candidates is
\* skipped
RECURSIVE collect_first_candidates(_, _)
collect_first_candidates(clauses, node_selected) ==
    IF clauses = <<>> THEN [panic |-> FALSE, out |-> <<>>]
    ELSE IF clauses[Len(clauses)] = <<>>
         THEN collect_first_candidates(SubSeq(clauses, 1, Len(clauses) - 1), node_selected)
    ELSE [panic |-> FALSE,
          out |-> Append(collect_first_candidates(SubSeq(clauses, 1, Len(clauses) - 1),
                                                  node_selected).out,
                         clauses[Len(clauses)][SafeIndex(node_selected, Len(clauses) - 1,
                                                         Len(clauses[Len(clauses)])) + 1])]

\* CurrentState::new
CurrentState_new(live_conversion) ==
    [op |-> "new", raw_input |-> <<>>, clauses |-> <<>>, current_clause |-> 0,
     node_selected |-> <<>>, force_selected_clause |-> <<>>,
     live_conversion |-> live_conversion, out |-> <<>>, panic |-> FALSE,
     set_directly |-> FALSE]

\* fn clear_current_clause
clear_current_clause(cs) == [cs EXCEPT !.current_clause = 0]

\* fn clear_node_selected
clear_node_selected(cs) == [cs EXCEPT !.node_selected = <<>>]

\* fn adjust_current_clause leaving the index where it is
adjust_current_clause_Keeps(cs) == cs

\* fn adjust_current_clause
adjust_current_clause(cs) ==
    IF cs.clauses = <<>> THEN [cs EXCEPT !.current_clause = 0]
    ELSE IF cs.current_clause >= Len(cs.clauses)
         THEN [cs EXCEPT !.current_clause = Len(cs.clauses) - 1]
    ELSE cs

\* fn set_clauses with the current clause cleared whatever is forced
set_clauses_AlwaysClears(cs, clause) ==
    IF cs.clauses # clause
    THEN [cs EXCEPT !.clauses = clause, !.node_selected = <<>>, !.current_clause = 0]
    ELSE cs

\* fn set_clauses: the current clause is kept while a range is forced
set_clauses(cs, clause) ==
    IF cs.clauses # clause
    THEN IF cs.force_selected_clause = <<>>
         THEN clear_current_clause(clear_node_selected([cs EXCEPT !.clauses = clause]))
         ELSE clear_node_selected([cs EXCEPT !.clauses = clause])
    ELSE cs

\* A raw input that starts with an ASCII upper-case letter
StartsUppercase(raw_input) == raw_input # <<>> /\ raw_input[1] = "A"

\* fn henkan; conv is what engine.convert returns, [err, clauses]. On Err the
\* state is as before (the callers log the error)
henkan(cs, conv) ==
    IF cs.raw_input = <<>> THEN set_clauses(cs, <<>>)
    ELSE IF StartsUppercase(cs.raw_input) /\ cs.force_selected_clause = <<>>
         THEN adjust_current_clause(set_clauses(cs, <<<<cs.raw_input>>>>))
    ELSE IF conv.err THEN cs
    ELSE adjust_current_clause(set_clauses(cs, conv.clauses))

\* fn clear_force_selected_clause, with on_force_selected_clause_change
clear_force_selected_clause(cs, conv) ==
    IF cs.force_selected_clause # <<>>
    THEN henkan([cs EXCEPT !.force_selected_clause = <<>>], conv)
    ELSE cs

\* fn on_raw_input_change
on_raw_input_change(cs, conv1, conv2) ==
    clear_node_selected(clear_current_clause(
        IF cs.live_conversion THEN henkan(clear_force_selected_clause(cs, conv1), conv2)
        ELSE [clear_force_selected_clause(cs, conv1) EXCEPT !.clauses = <<>>]))

\* fn clear_clauses
clear_clauses(cs, conv) ==
    clear_force_selected_clause(
        clear_node_selected(clear_current_clause([cs EXCEPT !.clauses = <<>>])), conv)

\* fn select_right_clause (dir 1) and select_left_clause (dir -1)
select_clause(cs, dir) ==
    IF cs.clauses = <<>> THEN cs
    ELSE [cs EXCEPT !.current_clause = next_clause_index(@, Len(cs.clauses), dir)]

\* libakaza::extend_clause::extend_left / extend_right: the forced ranges,
\* none for no clauses, else none or some
ExtendResults(clauses, current_clause) ==
    IF clauses = <<>> THEN {<<>>} ELSE {<<>>, <<"range">>}

\* The clause lists a conversion returns: 1 to MaxClauses clauses of two
\* candidates
ClauseLists == {[i \in 1..n |-> <<"X", "Y">>] : n \in 1..MaxClauses}

\* What engine.convert returns
ConvertResults ==
    {[err |-> TRUE, clauses |-> <<>>]} \cup {[err |-> FALSE, clauses |-> c] : c \in ClauseLists}

\* The results of the calls of engine.convert a handler makes: one (an error)
\* stands for all when the handler does not call it
ConvertsWhen(called) == IF called THEN ConvertResults ELSE {[err |-> TRUE, clauses |-> <<>>]}

RawChars == {"a", "A"}

\* Clause lists and selections handed to the two pure functions
PureClauses == UNION {[1..n -> {<<>>, <<"X">>, <<"X", "Y">>}] : n \in 0..2}

PureSelections == {<<>>} \cup {(c :> i) : c \in 0..1, i \in {0, 1, 99}}

InitCurrentState ==
    /\ QueryIdle
    /\ numeric = NoNumeric
    /\ packed_lm = NoPackedLM
    /\ nan_sort = NoSort
    /\ \E live_conversion \in BOOLEAN : current_state = CurrentState_new(live_conversion)
    /\ pc = "init"

CurrentStateFrame == UNCHANGED <<query_vars, numeric, packed_lm, nan_sort, pc>>

\* CurrentState::append_raw_input
AppendRawInput(ch, conv1, conv2) ==
    /\ current_state.op \notin {"none", "build_string", "collect_first_candidates"}
    /\ Len(current_state.raw_input) < MaxLen
    /\ current_state' =
          [on_raw_input_change([current_state EXCEPT !.raw_input = Append(@, ch)],
                               conv1, conv2)
             EXCEPT !.op = "ready"]
    /\ CurrentStateFrame

\* CurrentState::set_raw_input
SetRawInput(raw_input, conv1, conv2) ==
    /\ current_state.op \notin {"none", "build_string", "collect_first_candidates"}
    /\ current_state' =
          [(IF current_state.raw_input # raw_input
            THEN on_raw_input_change([current_state EXCEPT !.raw_input = raw_input],
                                     conv1, conv2)
            ELSE current_state)
             EXCEPT !.op = "ready"]
    /\ CurrentStateFrame

\* CurrentState::clear_raw_input
ClearRawInput(conv1, conv2) ==
    /\ current_state.op \notin {"none", "build_string", "collect_first_candidates"}
    /\ current_state' =
          [(IF current_state.raw_input # <<>>
            THEN on_raw_input_change([current_state EXCEPT !.raw_input = <<>>], conv1, conv2)
            ELSE current_state)
             EXCEPT !.op = "ready"]
    /\ CurrentStateFrame

\* CurrentState::henkan
Henkan(conv) ==
    /\ current_state.op \notin {"none", "build_string", "collect_first_candidates"}
    /\ current_state' = [henkan(current_state, conv) EXCEPT !.op = "ready"]
    /\ CurrentStateFrame

\* CurrentState::set_clauses called by itself, outside henkan; set_directly
\* records that it was
SetClauses(clause) ==
    /\ current_state.op \notin {"none", "build_string", "collect_first_candidates"}
    /\ current_state' = [set_clauses(current_state, clause) EXCEPT !.op = "ready",
                                                                  !.set_directly = TRUE]
    /\ CurrentStateFrame

\* CurrentState::clear_clauses
ClearClauses(conv) ==
    /\ current_state.op \notin {"none", "build_string", "collect_first_candidates"}
    /\ current_state' = [clear_clauses(current_state, conv) EXCEPT !.op = "ready"]
    /\ CurrentStateFrame

\* CurrentState::select_right_clause
SelectRightClause ==
    /\ current_state.op \notin {"none", "build_string", "collect_first_candidates"}
    /\ current_state' = [select_clause(current_state, 1) EXCEPT !.op = "ready"]
    /\ CurrentStateFrame

\* CurrentState::select_left_clause
SelectLeftClause ==
    /\ current_state.op \notin {"none", "build_string", "collect_first_candidates"}
    /\ current_state' = [select_clause(current_state, -1) EXCEPT !.op = "ready"]
    /\ CurrentStateFrame

\* CurrentState::extend_right and extend_left: the forced ranges are set and
\* on_force_selected_clause_change converts again
ExtendClause(conv) ==
    /\ current_state.op \notin {"none", "build_string", "collect_first_candidates"}
    /\ \E force \in ExtendResults(current_state.clauses, current_state.current_clause) :
          current_state' =
             [henkan([current_state EXCEPT !.force_selected_clause = force], conv)
                EXCEPT !.op = "ready"]
    /\ CurrentStateFrame

\* CurrentState::select_candidate
SelectCandidate(candidate_pos) ==
    /\ current_state.op \notin {"none", "build_string", "collect_first_candidates"}
    /\ current_state' =
          [current_state EXCEPT !.op = "ready",
              !.node_selected = (current_state.current_clause :> candidate_pos) @@ @]
    /\ CurrentStateFrame

\* build_string_from_clauses on the given clauses and selection
BuildString(clauses, node_selected) ==
    /\ current_state.op = "new"
    /\ current_state' =
          [current_state EXCEPT !.op = "build_string", !.clauses = clauses,
              !.node_selected = node_selected,
              !.panic = build_string_from_clauses(clauses, node_selected).panic,
              !.out = build_string_from_clauses(clauses, node_selected).out]
    /\ CurrentStateFrame

\* collect_first_candidates on the given clauses and selection
CollectFirstCandidates(clauses, node_selected) ==
    /\ current_state.op = "new"
    /\ current_state' =
          [current_state EXCEPT !.op = "collect_first_candidates", !.clauses = clauses,
              !.node_selected = node_selected,
              !.panic = collect_first_candidates(clauses, node_selected).panic,
              !.out = collect_first_candidates(clauses, node_selected).out]
    /\ CurrentStateFrame

NextCurrentState ==
    \/ \E ch \in RawChars : \E conv1 \in ConvertsWhen(current_state.op # "none" /\ current_state.force_selected_clause # <<>>) :
          \E conv2 \in ConvertsWhen(current_state.op # "none" /\ current_state.live_conversion) :
             AppendRawInput(ch, conv1, conv2)
    \/ \E raw_input \in UNION {[1..n -> RawChars] : n \in 0..MaxLen} :
          \E conv1 \in ConvertsWhen(current_state.op # "none" /\ current_state.force_selected_clause # <<>>) :
          \E conv2 \in ConvertsWhen(current_state.op # "none" /\ current_state.live_conversion) :
             SetRawInput(raw_input, conv1, conv2)
    \/ \E conv1 \in ConvertsWhen(current_state.op # "none" /\ current_state.force_selected_clause # <<>>) :
          \E conv2 \in ConvertsWhen(current_state.op # "none" /\ current_state.live_conversion) :
             ClearRawInput(conv1, conv2)
    \/ \E conv \in ConvertResults : Henkan(conv)
    \/ \E clause \in {<<>>} \cup ClauseLists : SetClauses(clause)
    \/ \E conv \in ConvertsWhen(current_state.op # "none" /\ current_state.force_selected_clause # <<>>) :
          ClearClauses(conv)
    \/ SelectRightClause
    \/ SelectLeftClause
    \/ \E conv \in ConvertResults : ExtendClause(conv)
    \/ \E candidate_pos \in {1, 99} : SelectCandidate(candidate_pos)
    \/ \E clauses \in PureClauses : \E node_selected \in PureSelections :
          BuildString(clauses, node_selected)
    \/ \E clauses \in PureClauses : \E node_selected \in PureSelections :
          CollectFirstCandidates(clauses, node_selected)

SpecCurrentState == InitCurrentState /\ [][NextCurrentState]_vars

\* C29: build_string_from_clauses and collect_first_candidates never panic: a
\* selected index out of range falls back to candidate 0 and a clause
\* without candidates contributes nothing.
ClaimC29_StringBuildersNeverPanic ==
    current_state.op \in {"build_string", "collect_first_candidates"} => ~current_state.panic

\* C30: after every operation current_clause is 0 when there are no clauses
\* and below clauses.len() otherwise; select_right_clause and
\* select_left_clause wrap around and undo each other.
ClaimC30_CurrentClauseInRange ==
    current_state.op \notin {"none", "build_string", "collect_first_candidates"}
       => /\ (current_state.clauses = <<>> => current_state.current_clause = 0)
          /\ (current_state.clauses # <<>>
                => current_state.current_clause < Len(current_state.clauses))
          /\ select_clause(select_clause(current_state, 1), -1) = current_state
          /\ select_clause(select_clause(current_state, -1), 1) = current_state

\* C30 (amended): after every sequence of operations in which set_clauses is
\* called by henkan alone, current_clause is 0 when there are no clauses and
\* below clauses.len() otherwise, and select_right_clause and
\* select_left_clause wrap around and undo each other.
ThmC30_InRangeUnlessSetDirectly ==
    (/\ current_state.op \notin {"none", "build_string", "collect_first_candidates"}
     /\ ~current_state.set_directly)
       => /\ (current_state.clauses = <<>> => current_state.current_clause = 0)
          /\ (current_state.clauses # <<>>
                => current_state.current_clause < Len(current_state.clauses))
          /\ select_clause(select_clause(current_state, 1), -1) = current_state
          /\ select_clause(select_clause(current_state, -1), 1) = current_state
          /\ (Len(current_state.clauses) > 1
                => /\ select_clause(current_state, 1).current_clause
                        = (current_state.current_clause + 1) % Len(current_state.clauses)
                   /\ select_clause(current_state, 1) # current_state)

\* The last of three clauses is selected while a range is forced
WitC30_LastClauseSelectedWhileForced ==
    /\ ~current_state.set_directly
    /\ current_state.op = "ready"
    /\ Len(current_state.clauses) = 3
    /\ current_state.current_clause = 2
    /\ current_state.force_selected_clause # <<>>

====
